---- MODULE Spec2Model ----
(***************************************************************************)
(* Verification model of the affine-cli core.                              *)
(*                                                                         *)
(* Realtime layer (src/yjs.ts, here src/unnamed/part_003): the Yjs         *)
(* document builder, the realtime transport and the three operations       *)
(* createDoc, appendText and deleteDocRealtime, run serially by one caller *)
(* against one server (Spec, SpecBuild).                                   *)
(*                                                                         *)
(* HTTP core (src/http.ts, here src/src/format.ts) and MCP client          *)
(* (src/src/mcp.ts): one request() call, made directly or by rpc(), as the *)
(* sequence of its exchanges with the backend and its backoff sleeps       *)
(* (SpecHttp). SpecCore runs either machine from the initial state.        *)
(*                                                                         *)
(* Yjs is modelled by the part of its semantics the code relies on:        *)
(*   - a document is a store of structs; applyUpdate is the union of two   *)
(*     stores, encodeStateAsUpdate is the whole store;                     *)
(*   - the root map 'blocks' holds, per key, one map item per set() call;  *)
(*     every set() in this code is made where the local document has no    *)
(*     item for the key, so all items of a key have a null origin and the  *)
(*     item of the highest clientID is the key's value (the others are     *)
(*     deleted with everything nested in them);                            *)
(*   - a block's sys:children is a Y.Array of items ordered by YATA        *)
(*     (items of one origin by ascending clientID, each followed by the    *)
(*     items that were inserted after it).                                 *)
(* Every new Y.Doc() has a fresh clientID and randId()/Date.now() ids are  *)
(* fresh: both are drawn from what the documents at hand do not use yet.   *)
(***************************************************************************)
EXTENDS Integers, Sequences, FiniteSets, TLC

\* ------------------------------------------------------------ bounds
MaxOps == 2        \* operations the caller issues one after another

\* Every operation makes one Y.Doc and at most one paragraph: MaxOps clientIDs
\* give every relative order of the documents' clientIDs, MaxOps paragraph ids
\* every paragraph its own id.
Clients == 1..MaxOps
Unset == "unset"   \* a field that was never set / an argument not given

\* opts.title / opts.content / opts.text as the caller may give them
Titles == {Unset, "", "T"}
Contents == {Unset, "", "a", "b"}
CreateTitles == {"", "T"}
CreateContents == {Unset, "a"}
Texts == {"a", "b"}

\* ------------------------------------------------------------ ids
DocId == "d"                       \* the docId under study (randId(20) of createDoc)
PageIdOf(docId) == <<"page", docId>>
NoteIdOf(docId) == <<"note", docId>>
ParaIds == {<<"p", n>> : n \in 1..MaxOps}
RandIds == {<<"r", n>> : n \in 1..3}   \* randId(20) values of buildInitialPageUpdate

\* JavaScript truthiness of an optional string: undefined and '' are falsy
Truthy(s) == s # Unset /\ s # ""
\* String(x ?? '')
StringOf(s) == IF s = Unset THEN "" ELSE s

\* ------------------------------------------------------------ Yjs documents
EmptyDoc == [blocks |-> {}, kids |-> {}]

\* One Y.Map stored under blocks[key] by client: the fields set on it.
YBlock(key, client, flavour, version, title, xywh, type, collapsed, text) ==
  [key |-> key, client |-> client, id |-> key, flavour |-> flavour,
   version |-> version, title |-> title, xywh |-> xywh, type |-> type,
   collapsed |-> collapsed, text |-> text]

\* One item of the Y.Array sys:children of the block (key, owner): inserted by
\* client after the item of client origin (0: at the start), holding val.
YKid(key, owner, client, origin, val) ==
  [arr |-> <<key, owner>>, client |-> client, origin |-> origin, val |-> val]

\* Y.applyUpdate(doc, update): the stores are united
applyUpdate(doc, update) ==
  [blocks |-> doc.blocks \cup update.blocks, kids |-> doc.kids \cup update.kids]

\* Y.encodeStateAsUpdate(doc): the whole store
encodeStateAsUpdate(doc) == doc

ClientsIn(doc) == {b.client : b \in doc.blocks} \cup {k.client : k \in doc.kids}
KeysIn(doc) == {b.key : b \in doc.blocks}

\* yBlocks.get(key): the item of the highest clientID is the value
HasBlock(doc, key) == \E b \in doc.blocks : b.key = key
GetBlock(doc, key) ==
  CHOOSE b \in doc.blocks :
    b.key = key /\ \A o \in doc.blocks : o.key = key => o.client <= b.client

\* the blocks map as a reader sees it
VisibleBlocks(doc) == {GetBlock(doc, k) : k \in KeysIn(doc)}

\* YATA order of the items inserted after origin, siblings by ascending clientID
RECURSIVE OrderFrom(_, _, _)
OrderFrom(items, origin, fuel) ==
  LET sibs == {k \in items : k.origin = origin}
      Walk[S \in SUBSET sibs] ==
        IF S = {} THEN <<>>
        ELSE LET k == CHOOSE x \in S : \A y \in S : x.client <= y.client
             IN <<k.val>> \o OrderFrom(items, k.client, fuel - 1) \o Walk[S \ {k}]
  IN IF fuel = 0 THEN <<>> ELSE Walk[sibs]

\* block.get('sys:children').toArray()
ChildrenOf(doc, b) ==
  LET items == {k \in doc.kids : k.arr = <<b.key, b.client>>}
  IN OrderFrom(items, 0, Cardinality(items) + 1)

\* the client of the last item of the array (0 when it is empty): where push() inserts
LastKid(doc, b) ==
  LET items == {k \in doc.kids : k.arr = <<b.key, b.client>>}
      Last[o \in 0..MaxOps] ==
        LET sibs == {k \in items : k.origin = o}
        IN IF sibs = {} THEN o
           ELSE Last[(CHOOSE x \in sibs : \A y \in sibs : y.client <= x.client).client]
  IN Last[0]

\* ------------------------------------------------------------ the builder
\* The page / note / paragraph scaffold both buildInitialPageUpdate and createDoc
\* write into a new Y.Doc of clientID client.
Scaffold(client, pageId, noteId, paraId, title, content) ==
  LET hasPara == Truthy(content)
      yPage == YBlock(pageId, client, "affine:page", 2,
                      IF Truthy(title) THEN StringOf(title) ELSE Unset,
                      Unset, Unset, Unset, Unset)
      yNote == YBlock(noteId, client, "affine:note", 1,
                      Unset, "[0,0,600,400]", Unset, Unset, Unset)
      yPara == YBlock(paraId, client, "affine:paragraph", 1,
                      Unset, Unset, "text", "false", StringOf(content))
  IN [blocks |-> {yPage, yNote} \cup (IF hasPara THEN {yPara} ELSE {}),
      kids |-> {YKid(pageId, client, client, 0, noteId)}
               \cup (IF hasPara THEN {YKid(noteId, client, client, 0, paraId)} ELSE {})]

\* a builder that writes the paragraph whenever content is given, '' included
buildInitialPageUpdate_AnyContent(client, pageId, noteId, paraId, title, content) ==
  LET made == Scaffold(client, pageId, noteId, paraId, title,
                       IF content = "" THEN "x" ELSE content)
  IN encodeStateAsUpdate(
       [made EXCEPT !.blocks = {IF b.key = paraId /\ content = ""
                                THEN [b EXCEPT !.text = ""] ELSE b : b \in @}])

buildInitialPageUpdate(client, pageId, noteId, paraId, title, content) ==
  encodeStateAsUpdate(Scaffold(client, pageId, noteId, paraId, title, content))

\* ------------------------------------------------------------ acknowledgements
\* The value of the error field of an acknowledgement, by its JavaScript type:
\*   absent   no error field            str     a string (s)
\*   objmsg   an object with a string message (s)
\*   obj      an object without one (s: its JSON)
\*   falsy    null, 0 or false          num     a number or true (s: String(raw))
NoError == [t |-> "absent", s |-> ""]
ErrorFields ==
  {[t |-> "str", s |-> "quota exceeded"], [t |-> "str", s |-> ""],
   [t |-> "objmsg", s |-> "denied"], [t |-> "objmsg", s |-> ""],
   [t |-> "obj", s |-> "{code:7}"], [t |-> "falsy", s |-> ""],
   [t |-> "num", s |-> "5"]}

\* An acknowledgement: obj (an object or not), its accepted field and its error field
AckUndefined == [obj |-> FALSE, accepted |-> Unset, error |-> NoError]
OkAcks ==
  {AckUndefined} \cup
  {[obj |-> TRUE, accepted |-> a, error |-> NoError] : a \in {Unset, "true", "false"}}
ErrorAcks == {[obj |-> TRUE, accepted |-> Unset, error |-> e] : e \in ErrorFields}
Acks == OkAcks \cup ErrorAcks

\* What an emit comes to: an acknowledgement, a rejection, or no answer at all
Answered(a) == [res |-> "ack", ack |-> a]
Rejected == [res |-> "reject", ack |-> AckUndefined]
Never == [res |-> "never", ack |-> AckUndefined]
EmitOutcomes == {Answered(a) : a \in Acks} \cup {Rejected, Never}

\* string | undefined
Undefined == [def |-> FALSE, s |-> ""]
Str(s) == [def |-> TRUE, s |-> s]

extractRealtimeError(ack) ==
  IF ~ack.obj THEN Undefined
  ELSE LET raw == ack.error
       IN IF raw.t \in {"absent", "falsy"} \/ (raw.t = "str" /\ raw.s = "") THEN Undefined
          ELSE Str(raw.s)

\* the error ensureAckOk throws ([thrown |-> FALSE] when it returns)
NoErr == [thrown |-> FALSE, at |-> "", op |-> "", text |-> "", hasAck |-> FALSE,
          ack |-> AckUndefined]
ensureAckOk(ack, op) ==
  LET msg == extractRealtimeError(ack)
  IN IF ~msg.def \/ msg.s = "" THEN NoErr
     ELSE [thrown |-> TRUE, at |-> op, op |-> op, text |-> msg.s, hasAck |-> TRUE,
           ack |-> ack]

\* an error that is not ensureAckOk's: thrown at step at, with the text given
Thrown(at, text) ==
  [thrown |-> TRUE, at |-> at, op |-> "", text |-> text, hasAck |-> FALSE,
   ack |-> AckUndefined]

\* ------------------------------------------------------------ appendText's document work
NoKey == <<"none", "">>

\* a lookup without the derived-id fallback of the degraded mode
FindNoteId_NoFallback(doc, havePulled, docId) ==
  LET pages == {b \in VisibleBlocks(doc) : b.flavour = "affine:page"}
  IN IF pages = {} THEN NoKey
     ELSE LET arr == ChildrenOf(doc, CHOOSE b \in pages : TRUE)
          IN IF arr = <<>> THEN NoKey ELSE arr[1]

\* lines 423-433: the note the paragraph goes under
FindNoteId(doc, havePulled, docId) ==
  IF ~havePulled THEN NoteIdOf(docId)
  ELSE LET pages == {b \in VisibleBlocks(doc) : b.flavour = "affine:page"}
       IN IF pages = {} THEN NoKey
          ELSE LET yPage == CHOOSE b \in pages : TRUE
                   arr == ChildrenOf(doc, yPage)
                   notes == {i \in 1..Len(arr) :
                               /\ HasBlock(doc, arr[i])
                               /\ GetBlock(doc, arr[i]).flavour = "affine:note"}
               IN IF notes = {} THEN NoKey
                  ELSE arr[CHOOSE i \in notes : \A j \in notes : i <= j]

\* a transaction that links the paragraph under the note without storing its block
AppendTransact_NoParaBlock(doc, client, noteId, paraId, text) ==
  LET stub == YBlock(noteId, client, "affine:note", 1,
                     Unset, Unset, Unset, Unset, Unset)
      withNote == IF HasBlock(doc, noteId) THEN doc
                  ELSE [doc EXCEPT !.blocks = @ \cup {stub}]
      yNote == GetBlock(withNote, noteId)
  IN [withNote EXCEPT !.kids =
        @ \cup {YKid(noteId, yNote.client, client, LastKid(withNote, yNote), paraId)}]

\* a transaction made on a fresh document instead of the pulled one
AppendTransact_FreshDoc(doc, client, noteId, paraId, text) ==
  LET yPara == YBlock(paraId, client, "affine:paragraph", 1,
                      Unset, Unset, "text", "false", StringOf(text))
      stub == YBlock(noteId, client, "affine:note", 1,
                     Unset, Unset, Unset, Unset, Unset)
  IN [blocks |-> {yPara, stub},
      kids |-> {YKid(noteId, client, client, 0, paraId)}]

\* lines 438-461: the transaction that adds the paragraph (and the stub note)
AppendTransact(doc, client, noteId, paraId, text) ==
  LET yPara == YBlock(paraId, client, "affine:paragraph", 1,
                      Unset, Unset, "text", "false", StringOf(text))
      stub == YBlock(noteId, client, "affine:note", 1,
                     Unset, Unset, Unset, Unset, Unset)
      withPara == [doc EXCEPT !.blocks = @ \cup {yPara}]
      withNote == IF HasBlock(withPara, noteId) THEN withPara
                  ELSE [withPara EXCEPT !.blocks = @ \cup {stub}]
      yNote == GetBlock(withNote, noteId)
  IN [withNote EXCEPT !.kids =
        @ \cup {YKid(noteId, yNote.client, client, LastKid(withNote, yNote), paraId)}]

\* the lowest paragraph id no document at hand uses
NewParaId(used) ==
  CHOOSE p \in ParaIds \ used : \A q \in ParaIds \ used : p[2] <= q[2]

\* ------------------------------------------------------------ HTTP core: request() (src/http.ts)
MaxAttemptsArg == 3       \* the largest opts.maxAttempts a caller passes
DefaultMaxAttempts == 3   \* opts.maxAttempts ?? 3
BackoffBaseMs == 200      \* 200 * Math.pow(2, attempt - 1)
NoStatus == 0             \* status?: number left undefined

Max(a, b) == IF a >= b THEN a ELSE b
RECURSIVE Pow2(_)
Pow2(n) == IF n <= 0 THEN 1 ELSE 2 * Pow2(n - 1)

\* opts.maxAttempts as the caller may give it: not at all, or a number
NotGiven == [given |-> FALSE, n |-> 0]
Given(n) == [given |-> TRUE, n |-> n]
MaxAttemptsOpts == {NotGiven} \cup {Given(n) : n \in 0..MaxAttemptsArg}
ResponseTypes == {Unset, "json", "text", "buffer"}

\* a budget of one attempt more than asked for
maxAttemptsOf_OneMore(opt) == Max(1, IF opt.given THEN opt.n ELSE DefaultMaxAttempts) + 1

\* a budget without the floor of one attempt
maxAttemptsOf_NoFloor(opt) == IF opt.given THEN opt.n ELSE DefaultMaxAttempts

\* const maxAttempts = Math.max(1, opts.maxAttempts ?? 3)
maxAttemptsOf(opt) == Max(1, IF opt.given THEN opt.n ELSE DefaultMaxAttempts)

\* Math.floor(Math.random() * 100) - 50 lies in [-50, +49]: its two ends
Jitters == {-50, 49}

\* the statuses the backend answers with
Statuses == {200, 204, 300, 400, 401, 404, 408, 429, 500, 503}

\* JSON texts a body line may hold, and a line that is no JSON
JResult == "{\"jsonrpc\":\"2.0\",\"id\":\"1\",\"result\":\"ok\"}"
JError == "{\"jsonrpc\":\"2.0\",\"id\":\"1\",\"error\":{\"code\":42,\"message\":\"boom\"}}"
JErrorNoMessage == "{\"jsonrpc\":\"2.0\",\"id\":\"1\",\"error\":{\"code\":7,\"message\":\"\"}}"
JErrorNull == "{\"jsonrpc\":\"2.0\",\"id\":\"1\",\"result\":\"ok\",\"error\":null}"
JTools == "{\"jsonrpc\":\"2.0\",\"id\":\"1\",\"result\":{\"tools\":[{\"name\":\"keyword_search\"},{\"name\":\"read_document\"}]}}"
JMarkdown == "{\"jsonrpc\":\"2.0\",\"id\":\"1\",\"result\":{\"markdown\":\"# hi\"}}"
JMatches == "{\"jsonrpc\":\"2.0\",\"id\":\"1\",\"result\":{\"results\":[{\"id\":\"m1\"},{\"id\":\"m2\"}]}}"
JArray == "{\"jsonrpc\":\"2.0\",\"id\":\"1\",\"result\":[{\"id\":\"a1\",\"name\":\"read_document\"}]}"
NotJson == "<html>"
\* GraphQL envelopes: errors, data, and data with an empty errors array
JGqlErrors == "{\"errors\":[{\"message\":\"bad\"},{\"message\":\"worse\"}]}"
JGqlData == "{\"data\":{\"ok\":true}}"
JGqlNoErrors == "{\"data\":{\"ok\":true},\"errors\":[]}"
JsonTexts == {JResult, JError, JErrorNoMessage, JErrorNull, JTools, JMarkdown, JMatches, JArray}

\* response bodies, as their lines (the raw text is the lines joined by \n)
Bodies ==
  { <<>>, <<JResult>>, <<JError>>, <<NotJson>>, <<"data: " \o JError, "">>,
    <<"data: " \o JResult, "">> }
ContentTypes == {"application/json", "text/event-stream"}

\* the value of a result field, by its shape:
\*   undefined  none              string    a string (s)
\*   tools      { tools: [...] }, the tools' names in names
\*   markdown   { markdown: s }   results   { results: [...] }, the entries' ids in list
\*   array      a bare array, its entries' ids in list and their names in names
\*   envelope   not a result: the envelope itself, which has no result field
NoResult == [t |-> "undefined", s |-> "", list |-> <<>>, names |-> <<>>]
ResultValue(t, str, list, names) == [t |-> t, s |-> str, list |-> list, names |-> names]

\* a decoded JSON value: undefined, or a JSON-RPC envelope. hasError: the envelope
\* has an error key; errorTruthy: its value is an object (not null); message is ''
\* also when error.message is missing.
\* Of a GraphQL envelope: errors holds the messages of its errors array (empty also
\* when it has none), hasData tells whether it has a data member.
NoValue == [def |-> FALSE, hasError |-> FALSE, errorTruthy |-> FALSE, code |-> 0,
            message |-> "", hasResult |-> FALSE, result |-> NoResult,
            errors |-> <<>>, hasData |-> FALSE]
GqlEnvelope(hasData, errors) ==
  [NoValue EXCEPT !.def = TRUE, !.hasData = hasData, !.errors = errors]
EnvResult(r) == [NoValue EXCEPT !.def = TRUE, !.hasResult = TRUE, !.result = r]
EnvError(code, message) ==
  [NoValue EXCEPT !.def = TRUE, !.hasError = TRUE, !.errorTruthy = TRUE,
                  !.code = code, !.message = message]

\* JSON.parse of one line of text ([ok |-> FALSE] when it throws)
JsonParseLine(s) ==
  LET Ok(v) == [ok |-> TRUE, value |-> v]
  IN IF s = JResult THEN Ok(EnvResult(ResultValue("string", "ok", <<>>, <<>>)))
     ELSE IF s = JError THEN Ok(EnvError(42, "boom"))
     ELSE IF s = JErrorNoMessage THEN Ok(EnvError(7, ""))
     ELSE IF s = JErrorNull
     THEN Ok([EnvResult(ResultValue("string", "ok", <<>>, <<>>)) EXCEPT !.hasError = TRUE])
     ELSE IF s = JTools
     THEN Ok(EnvResult(ResultValue("tools", "", <<>>, <<"keyword_search", "read_document">>)))
     ELSE IF s = JMarkdown THEN Ok(EnvResult(ResultValue("markdown", "# hi", <<>>, <<>>)))
     ELSE IF s = JMatches THEN Ok(EnvResult(ResultValue("results", "", <<"m1", "m2">>, <<>>)))
     ELSE IF s = JArray
     THEN Ok(EnvResult(ResultValue("array", "", <<"a1">>, <<"read_document">>)))
     ELSE IF s = JGqlErrors THEN Ok(GqlEnvelope(FALSE, <<"bad", "worse">>))
     ELSE IF s = JGqlData THEN Ok(GqlEnvelope(TRUE, <<>>))
     ELSE IF s = JGqlNoErrors THEN Ok(GqlEnvelope(TRUE, <<>>))
     ELSE [ok |-> FALSE, value |-> NoValue]

\* JSON.parse of a body: one JSON text, white space around it allowed
JsonParse(body) ==
  LET full == {i \in 1..Len(body) : body[i] # ""}
  IN IF Cardinality(full) = 1 THEN JsonParseLine(body[CHOOSE i \in full : TRUE])
     ELSE [ok |-> FALSE, value |-> NoValue]

\* what undiciRequest (and reading the body) comes to in one attempt: a response,
\* or a thrown error with its code, message and statusCode as far as it has them
Response(status, ct, body) ==
  [kind |-> "response", status |-> status, ct |-> ct, body |-> body,
   code |-> Unset, message |-> Undefined, statusCode |-> NoStatus]
ThrownError(code, message, statusCode) ==
  [kind |-> "throw", status |-> NoStatus, ct |-> "", body |-> <<>>,
   code |-> code, message |-> message, statusCode |-> statusCode]

Is2xx(status) == status >= 200 /\ status < 300

Responses ==
  {Response(s, ct, b) : s \in {200, 204}, ct \in ContentTypes, b \in Bodies}
  \cup {Response(s, "application/json", <<JError>>) : s \in Statuses \ {200, 204}}
ThrownErrors ==
  { ThrownError("UND_ERR_HEADERS_TIMEOUT", Str("Headers timeout"), NoStatus),
    ThrownError("UND_ERR_BODY_TIMEOUT", Str("Body timeout"), NoStatus),
    ThrownError("ETIMEDOUT", Str("connect ETIMEDOUT"), NoStatus),
    ThrownError("ECONNREFUSED", Str("connect ECONNREFUSED 127.0.0.1:443"), NoStatus),
    ThrownError(Unset, Undefined, NoStatus),
    ThrownError(Unset, Str("Bad Gateway"), 502),
    ThrownError(Unset, Str("Not Found"), 404) }
Outcomes == Responses \cup ThrownErrors

\* what the backend answers a GraphQL POST with
GqlHttpOutcomes ==
  {Response(200, "application/json", <<b>>) : b \in {JGqlData, JGqlErrors, JGqlNoErrors}}
  \cup {Response(s, "application/json", <<JGqlErrors>>) : s \in {400, 500}}
  \cup {Response(400, "application/json", <<JGqlNoErrors>>),
        Response(400, "text/html", <<NotJson>>),
        Response(200, "application/json", <<>>),
        ThrownError("UND_ERR_HEADERS_TIMEOUT", Str("Headers timeout"), NoStatus),
        ThrownError(Unset, Str("Bad Gateway"), 502)}
\* the backend's answers by the layer that called request()
OutcomesOf(layer) == IF layer = "gql" THEN GqlHttpOutcomes ELSE Outcomes

\* a retry policy that gives up on 408 and 429
defaultRetryOnStatus_Only5xx(status) == status >= 500 /\ status < 600

\* a retry policy that retries every client and server error
defaultRetryOnStatus_From400(status) == status >= 400 /\ status < 600

\* a retry policy that retries whatever the status
defaultRetryOnStatus_Always(status) == TRUE

\* lines 191-193
defaultRetryOnStatus(status) ==
  status = 408 \/ status = 429 \/ (status >= 500 /\ status < 600)

\* error messages: a text, and the status `HTTP ${status}` ends with
Msg(text) == [text |-> text, n |-> NoStatus]
HttpMsg(status) == [text |-> "HTTP ", n |-> status]

\* the HttpError classes (lines 102-140) and the plain Error of rpc
HttpError(name, message, status, code, attempt, retryable) ==
  [name |-> name, message |-> message, status |-> status, code |-> code,
   attempt |-> attempt, retryable |-> retryable, rpcCode |-> 0, errors |-> <<>>]
TimeoutError(message, attempt) ==
  HttpError("TimeoutError", message, NoStatus, "ETIMEDOUT", attempt, TRUE)
NetworkError(message, attempt, code, retryable) ==
  HttpError("NetworkError", message, NoStatus, code, attempt, retryable)
ResponseError(message, status, attempt, retryable) ==
  HttpError("ResponseError", message, status, Unset, attempt, retryable)
NoHttpError == HttpError("none", Msg(""), NoStatus, Unset, 0, FALSE)

\* the plain Error of unwrapRpc: message and the envelope's error.code
RpcError(message, code) ==
  [HttpError("Error", Msg(message), NoStatus, Unset, 0, FALSE) EXCEPT !.rpcCode = code]

\* a timeout check that knows the headers timeout only
isTimeout_HeadersOnly(code) == code = "UND_ERR_HEADERS_TIMEOUT"

\* line 302
isTimeout(code) ==
  code = "UND_ERR_HEADERS_TIMEOUT" \/ code = "UND_ERR_BODY_TIMEOUT" \/ code = "ETIMEDOUT"

\* a network error that is not retried
NetworkErrorOf_NotRetryable(raw, attempt) ==
  NetworkError(IF raw.message.def THEN Msg(raw.message.s) ELSE Msg("Network error"),
               attempt, raw.code, FALSE)

\* line 313
NetworkErrorOf(raw, attempt) ==
  NetworkError(IF raw.message.def THEN Msg(raw.message.s) ELSE Msg("Network error"),
               attempt, raw.code, TRUE)

\* lines 301-314: the error the catch block goes on with, for an error undici threw
Wrap(raw, attempt) ==
  IF isTimeout(raw.code) THEN TimeoutError(Msg("Request timed out"), attempt)
  ELSE IF raw.statusCode # NoStatus
  THEN ResponseError(HttpMsg(raw.statusCode), raw.statusCode, attempt,
                     defaultRetryOnStatus(raw.statusCode))
  ELSE NetworkErrorOf(raw, attempt)

\* a parse failure that is retried
ParseFailure_Retryable(status, attempt) ==
  ResponseError(Msg("Failed to parse JSON response"), status, attempt, TRUE)

\* lines 265-274
ParseFailure(status, attempt) ==
  ResponseError(Msg("Failed to parse JSON response"), status, attempt, FALSE)

\* lines 254-264: data of a 2xx response ([ok |-> FALSE] when JSON.parse throws)
NoData == [t |-> "undefined", text |-> <<>>, value |-> NoValue]
Decode(type, body) ==
  IF type \in {Unset, "json"}
  THEN IF body = <<>> THEN [ok |-> TRUE, data |-> NoData]
       ELSE LET p == JsonParse(body)
            IN [ok |-> p.ok, data |-> [NoData EXCEPT !.t = "json", !.value = p.value]]
  ELSE [ok |-> TRUE, data |-> [NoData EXCEPT !.t = type, !.text = body]]

HttpResponse(status, ct, data, rawBody) ==
  [status |-> status, ct |-> ct, data |-> data, rawBody |-> rawBody]
NoResponse == HttpResponse(NoStatus, "", NoData, <<>>)

\* a catch block that goes on to the backoff after the final attempt too
Caught_IgnoresFinal(wrapped, isFinal) ==
  [kind |-> IF ~wrapped.retryable THEN "throw" ELSE "retry",
   res |-> NoResponse, err |-> wrapped, caught |-> TRUE]

\* lines 298-318: the catch block, with the wrapped error at hand
Caught(wrapped, isFinal) ==
  [kind |-> IF ~wrapped.retryable \/ isFinal THEN "throw" ELSE "retry",
   res |-> NoResponse, err |-> wrapped, caught |-> TRUE]

\* lines 220-318: one pass of the loop body, up to the backoff
Attempt(out, attempt, isFinal, type) ==
  IF out.kind = "throw" THEN Caught(Wrap(out, attempt), isFinal)
  ELSE IF Is2xx(out.status)
  THEN LET d == Decode(type, out.body)
       IN IF d.ok
          THEN [kind |-> "return", err |-> NoHttpError, caught |-> FALSE,
                res |-> HttpResponse(out.status, out.ct, d.data, out.body)]
          ELSE Caught(ParseFailure(out.status, attempt), isFinal)
  ELSE LET err == ResponseError(HttpMsg(out.status), out.status, attempt,
                                defaultRetryOnStatus(out.status))
       IN IF ~err.retryable \/ isFinal THEN Caught(err, isFinal)
          ELSE [kind |-> "retry", res |-> NoResponse, err |-> err, caught |-> FALSE]

\* ------------------------------------------------------------ MCP client: rpc() (src/mcp.ts)
isEventStream(res) == res.ct = "text/event-stream"

\* an SSE line 'data:' + pad + text, and the texts such a line may carry
DataLine(pad, text) == "data:" \o pad \o text
DataPads == {"", " "}
DataTexts == JsonTexts \cup {NotJson, ""}

\* line.startsWith('data:') and line.slice(5).trim(): undefined for a line that
\* does not start with data:
SseData(line) ==
  LET hits == {t \in DataTexts : \E pad \in DataPads : line = DataLine(pad, t)}
  IN IF hits = {} THEN Undefined ELSE Str(CHOOSE t \in hits : TRUE)

\* a scan in which a data line that does not parse erases the value parsed so far
RECURSIVE parseSseFrom_MalformedErases(_, _, _)
parseSseFrom_MalformedErases(lines, i, last) ==
  IF i > Len(lines) THEN last
  ELSE LET json == SseData(lines[i])
           p == JsonParseLine(json.s)
       IN parseSseFrom_MalformedErases(lines, i + 1,
            IF json.def /\ json.s # "" /\ p.ok THEN p.value
            ELSE IF json.def THEN NoValue ELSE last)

\* lines 67-82, from line i on with the value parsed so far
RECURSIVE parseSseFrom(_, _, _)
parseSseFrom(lines, i, last) ==
  IF i > Len(lines) THEN last
  ELSE LET json == SseData(lines[i])
           p == JsonParseLine(json.s)
       IN parseSseFrom(lines, i + 1,
                       IF json.def /\ json.s # "" /\ p.ok THEN p.value ELSE last)
parseSsePayload(lines) == parseSseFrom(lines, 1, NoValue)

\* lines 84-95: what rpc resolves with, or the error it throws
RpcReturn(value) == [kind |-> "return", value |-> value, err |-> NoHttpError]
RpcThrow(err) == [kind |-> "throw", value |-> NoResult, err |-> err]

\* an unwrapping that hands the envelope's result, or the envelope, to the caller
\* whatever its error field
unwrapRpc_IgnoresError(payload) ==
  RpcReturn(IF payload.def /\ payload.hasResult THEN payload.result
            ELSE IF payload.def THEN [NoResult EXCEPT !.t = "envelope"]
            ELSE NoResult)

unwrapRpc(payload) ==
  IF payload.def /\ payload.hasError /\ payload.errorTruthy
  THEN RpcThrow(RpcError(IF payload.message # "" THEN payload.message ELSE "MCP error",
                         payload.code))
  ELSE RpcReturn(IF payload.def /\ payload.hasResult THEN payload.result
                 ELSE IF payload.def THEN [NoResult EXCEPT !.t = "envelope"]
                 ELSE NoResult)

\* lines 112-127: rpc once request() has returned res
rpcFinish(res) ==
  IF isEventStream(res) THEN unwrapRpc(parseSsePayload(res.data.text))
  ELSE LET p == JsonParse(res.data.text)
       IN IF p.ok THEN unwrapRpc(p.value)
          ELSE RpcThrow(RpcError("Failed to parse JSON response", 0))

\* ------------------------------------------------------------ MCP client: the tool calls
MaxSseLines == 2   \* the most lines a response body has

ToolOps == {"toolsList", "callTool", "readDocument", "keywordSearch", "semanticSearch"}

\* lines 130-135: the array itself, or its tools member, or []
toolsList(result) ==
  IF result.t \in {"array", "tools"} THEN ResultValue("array", "", result.list, result.names)
  ELSE ResultValue("array", "", <<>>, <<>>)

\* lines 142-160: { docId, markdown } from a string or a markdown member ('' otherwise;
\* the content and text members are left out of the shapes)
readDocument(result) ==
  ResultValue("document", IF result.t \in {"string", "markdown"} THEN result.s ELSE "",
              <<>>, <<>>)

\* lines 182-189: the results member, or the array itself, or []
normalizeMatches(out) ==
  IF out.t = "undefined" \/ (out.t = "string" /\ out.s = "") THEN ResultValue("array", "", <<>>, <<>>)
  ELSE IF out.t \in {"results", "array"} THEN ResultValue("array", "", out.list, out.names)
  ELSE ResultValue("array", "", <<>>, <<>>)

\* what the operation makes of the result rpc() resolved with
ToolReturn(name, result) ==
  IF name = "toolsList" THEN toolsList(result)
  ELSE IF name = "readDocument" THEN readDocument(result)
  ELSE IF name \in {"keywordSearch", "semanticSearch"} THEN normalizeMatches(result)
  ELSE result

\* the lines of a response body
McpLines ==
  JsonTexts \cup {NotJson, "", "event: message"}
  \cup {DataLine(" ", t) : t \in DataTexts}
  \cup {DataLine("", JError), DataLine("", JResult)}
RECURSIVE SeqsUpTo(_, _)
SeqsUpTo(S, n) ==
  IF n = 0 THEN {<<>>}
  ELSE LET shorter == SeqsUpTo(S, n - 1)
       IN shorter \cup {Append(q, x) : q \in shorter, x \in S}
McpBodies == SeqsUpTo(McpLines, MaxSseLines)

\* what request() comes to for rpc(): a 2xx response read as text, or an error
\* of one of its classes
RequestReturns(res) == [kind |-> "return", res |-> res, err |-> NoHttpError]
RequestThrows(err) == [kind |-> "throw", res |-> NoResponse, err |-> err]
RequestOutcomes ==
  {RequestReturns(HttpResponse(200, ct, Decode("text", b).data, b)) :
     ct \in ContentTypes, b \in McpBodies}
  \cup {RequestThrows(ResponseError(HttpMsg(500), 500, DefaultMaxAttempts, TRUE)),
        RequestThrows(ResponseError(HttpMsg(404), 404, 1, FALSE)),
        RequestThrows(TimeoutError(Msg("Request timed out"), DefaultMaxAttempts)),
        RequestThrows(NetworkError(Msg("Network error"), DefaultMaxAttempts, Unset, TRUE))}

\* a tool call not made
NoTool ==
  [name |-> "none", status |-> "idle", out |-> RequestThrows(NoHttpError),
   value |-> NoResult, err |-> NoHttpError]

\* ------------------------------------------------------------ keyword search: its values
MaxFirst == 2      \* the largest limit (first) a caller passes
SnippetPad == 40   \* idx - 40 and idx + q.length + 40

Min(a, b) == IF a <= b THEN a ELSE b

\* A string is the sequence of its characters; null and undefined are NoTxt.
Txt(chars) == [def |-> TRUE, chars |-> chars]
NoTxt == [def |-> FALSE, chars |-> <<>>]

\* String.prototype.toLowerCase, character by character
LowerChar(c) ==
  IF c = "D" THEN "d" ELSE IF c = "O" THEN "o" ELSE IF c = "X" THEN "x" ELSE c

\* a lower-casing that leaves the text as it is
toLowerCase_Identity(s) == s

toLowerCase(s) == [i \in 1..Len(s) |-> LowerChar(s[i])]

\* String.prototype.indexOf: the first 0-based position of q in text, -1 if none
indexOf(text, q) ==
  LET hits == {i \in 0..(Len(text) - Len(q)) : SubSeq(text, i + 1, i + Len(q)) = q}
  IN IF hits = {} THEN -1 ELSE CHOOSE i \in hits : \A j \in hits : i <= j
includes(text, q) == indexOf(text, q) >= 0

\* replace(/\s+/g, ' '): every run of white space becomes one space
IsWs(c) == c \in {" ", "\n"}
RECURSIVE collapseWs(_, _)
collapseWs(s, i) ==
  IF i > Len(s) THEN <<>>
  ELSE IF IsWs(s[i])
  THEN IF i > 1 /\ IsWs(s[i - 1]) THEN collapseWs(s, i + 1)
       ELSE <<" ">> \o collapseWs(s, i + 1)
  ELSE <<s[i]>> \o collapseWs(s, i + 1)

\* String.prototype.trim
RECURSIVE trim(_)
trim(s) ==
  IF s = <<>> THEN s
  ELSE IF IsWs(s[1]) THEN trim(Tail(s))
  ELSE IF IsWs(s[Len(s)]) THEN trim(SubSeq(s, 1, Len(s) - 1))
  ELSE s

\* lines 112-114: the snippet around position idx of text
snippetAt(text, idx, q) ==
  LET start == Max(0, idx - SnippetPad)
      end == Min(Len(text), idx + Len(q) + SnippetPad)
  IN trim(collapseWs(SubSeq(text, start + 1, end), 1))

\* the queries and limits a caller passes
Queries == {<<"d", "o">>, <<"D", "o">>, <<>>}
Firsts == {NotGiven} \cup {Given(n) : n \in 0..MaxFirst}

\* const maxItems = typeof first === 'number' && first > 0 ? first : undefined
maxItemsOf(first) == IF first.given /\ first.n > 0 THEN first ELSE NotGiven

\* one item of the result; a field an item does not have is NoTxt or Unset
Item(docId, title, highlight, snippet, createdAt, updatedAt, extra) ==
  [docId |-> docId, title |-> title, highlight |-> highlight, snippet |-> snippet,
   createdAt |-> createdAt, updatedAt |-> updatedAt, extra |-> extra]

\* lines 40-46: the fields taken from a SearchDoc
ProjectGql(d) ==
  Item(d.docId, d.title, d.highlight, NoTxt, d.createdAt, d.updatedAt, Unset)
MapSeq(Op(_), seq) == [i \in 1..Len(seq) |-> Op(seq[i])]

\* the documents of the workspace, as the listings give them (a title may be null)
Node(id, title) == [id |-> id, title |-> title]
D1 == Node("d1", Txt(<<"D", "o">>))
D2 == Node("d2", Txt(<<"x">>))
D3 == Node("d3", NoTxt)
D4 == Node("d4", Txt(<<"o", "d", "O">>))

\* what the indexer, the keyword_search tool and the listings answer with
G1 == Item("d1", Txt(<<"D", "o">>), Txt(<<"d", "o">>), NoTxt, "2024-01-01", "2024-01-02",
           "SearchDoc")
G2 == Item("g2", Txt(<<"x", " ", "d", "o">>), Txt(<<"d", "o">>), NoTxt, Unset, Unset,
           "SearchDoc")
M1 == Item("m1", Txt(<<"M">>), NoTxt, Txt(<<"s">>), Unset, Unset, Unset)
M2 == Item("d2", NoTxt, NoTxt, Txt(<<"x">>), Unset, Unset, Unset)

Take(seq, n) == SubSeq(seq, 1, Min(n, Len(seq)))
\* a server honours the limit it is given
Limit(seq, first) == IF first.given THEN Take(seq, first.n) ELSE seq

Threw == [kind |-> "throw", list |-> <<>>, names |-> {}]
Gave(list) == [kind |-> "list", list |-> list, names |-> {}]
GaveNull == [kind |-> "null", list |-> <<>>, names |-> {}]
GaveTools(names) == [kind |-> "list", list |-> <<>>, names |-> names]
NotCalled == [kind |-> "none", list |-> <<>>, names |-> {}]

GqlOutcomes(first) ==
  {Threw, GaveNull} \cup {Gave(Limit(l, first)) : l \in {<<>>, <<G1>>, <<G2, G1>>}}
ToolsOutcomes ==
  {Threw} \cup {GaveTools(n) : n \in SUBSET {"keyword_search", "read_document"}}
KeywordOutcomes == {Threw, Gave(<<>>), Gave(<<M1>>), Gave(<<M1, M2>>)}
ListOutcomes(first) ==
  {Threw} \cup {Gave(Limit(l, first)) : l \in {<<>>, <<D1, D2, D4>>, <<D3, D2>>, <<D2, D3, D1>>}}
\* readDocument: it throws, or gives the document's markdown
Markdowns == {<<>>, <<"x", "\n", " ", "D", "O", " ", "y">>, <<"x", "x">>}
ReadOutcomes == {Threw} \cup {Gave(m) : m \in Markdowns}

\* lines 71-76: the title scan over the listing
TitleMatches(edges, query) ==
  LET q == toLowerCase(query)
      Hit(n) == includes(toLowerCase(IF n.title.def THEN n.title.chars ELSE <<>>), q)
      ToItem(n) == Item(n.id, n.title, NoTxt, NoTxt, Unset, Unset, Unset)
  IN MapSeq(ToItem, SelectSeq(edges, Hit))

\* a content scan that runs whatever was found
shouldScanContent_Always(items, source, first) == TRUE

\* lines 81-86
shouldScanContent(items, source, first) ==
  /\ Len(items) = 0 \/ source = "graphql"
  /\ ~maxItemsOf(first).given \/ Len(items) < maxItemsOf(first).n

\* a quota that forgets the items found before the scan
remainingOf_WholeLimit(items, first) ==
  IF maxItemsOf(first).given THEN Given(maxItemsOf(first).n) ELSE NotGiven

\* line 101: Number.POSITIVE_INFINITY is NotGiven
remainingOf(items, first) ==
  IF maxItemsOf(first).given THEN Given(Max(0, maxItemsOf(first).n - Len(items)))
  ELSE NotGiven

\* a scan that takes no document for seen
SeenOf_Nothing(items) == {}

\* lines 96-100: the ids of the items found so far
SeenOf(items) == {items[i].docId : i \in 1..Len(items)}

\* a call of one of the resolver's collaborators: its name, the limit and the
\* document id it was given
Called(fn, first, docId) == [fn |-> fn, first |-> first, docId |-> docId]

\* the resolver before it is called
NoScan == [edges |-> <<>>, i |-> 0, matches |-> <<>>, before |-> 0, seen |-> {},
           remaining |-> NotGiven]
NoSearch ==
  [status |-> "idle", pc |-> "idle", query |-> <<>>, first |-> NotGiven,
   source |-> "fallback", items |-> <<>>, docsConn |-> NotCalled, scan |-> NoScan,
   calls |-> <<>>, gql |-> NotCalled, tools |-> NotCalled, keyword |-> NotCalled,
   recent |-> NotCalled, docs |-> NotCalled, titleItems |-> <<>>,
   scanTools |-> NotCalled, scanList |-> NotCalled, reads |-> <<>>]

\* ------------------------------------------------------------ the callers of request()
\* the HttpOptions a caller hands to gql() or to a tool call, as far as the
\* attempt count goes: none, or those of httpFromOpts (maxAttempts: 1)
NoHttpOpts == [maxAttempts |-> NotGiven]
httpFromOpts == [maxAttempts |-> Given(1)]
HttpOptsSet == {NoHttpOpts, httpFromOpts}

\* the RequestOptions postJson builds from the caller's options: url, method,
\* headers, json, token, cookie, timeoutMs, debug and responseType 'json'; no
\* maxAttempts among them
postJson(opts) == [maxAttempts |-> NotGiven, responseType |-> "json"]

\* the RequestOptions rpc builds: responseType 'text', and no maxAttempts either
rpcRequestOptions(opts) == [maxAttempts |-> NotGiven, responseType |-> "text"]

\* messages.join('; ')
RECURSIVE JoinMessages(_, _)
JoinMessages(msgs, sep) ==
  IF msgs = <<>> THEN ""
  ELSE IF Len(msgs) = 1 THEN msgs[1]
  ELSE msgs[1] \o sep \o JoinMessages(Tail(msgs), sep)

\* the Error gql makes of an errors array: the messages joined, the array attached
GqlError(errors) ==
  [HttpError("Error", Msg(JoinMessages(errors, "; ")), NoStatus, Unset, 0, FALSE)
     EXCEPT !.errors = errors]

\* a request() call not made
NoCall ==
  [layer |-> "none", httpOpts |-> NoHttpOpts, maxAttempts |-> NotGiven, responseType |-> Unset, pc |-> "idle",
   status |-> "idle", attempt |-> 0, res |-> NoResponse, err |-> NoHttpError,
   value |-> NoResult]

\* ------------------------------------------------------------ the config file (src/config.ts)
MaxWrites == 3   \* the most writeConfigProfile calls of a run

\* a key that is not there, and a key whose value is undefined
Absent == "absent"
Undef == "undefined"

ProfileNames == {"default", "work"}

\* a profile entry of the file: its credentials and a field the CLI knows nothing of
Profile(apiBaseUrl, token, cookie, keep) ==
  [present |-> TRUE, apiBaseUrl |-> apiBaseUrl, token |-> token, cookie |-> cookie,
   keep |-> keep]
NoProfile ==
  [present |-> FALSE, apiBaseUrl |-> Absent, token |-> Absent, cookie |-> Absent,
   keep |-> Absent]

\* the config file: none, one that is no JSON, or a JSON object with its top-level
\* apiBaseUrl, profile and extra and its profiles
NoFile ==
  [kind |-> "none", apiBaseUrl |-> Absent, profile |-> Absent, extra |-> Absent,
   profiles |-> [n \in ProfileNames |-> NoProfile]]
InvalidFile == [NoFile EXCEPT !.kind = "invalid"]
\* the file of the test of part_002, lines 59-67
InitialFile ==
  [kind |-> "object", apiBaseUrl |-> "https://file-base", profile |-> "default",
   extra |-> "nested",
   profiles |-> [n \in ProfileNames |->
                   IF n = "default" THEN Profile("https://file-default", "old-token", Absent, "value")
                   ELSE Profile(Absent, "other-token", "other-cookie", Absent)]]
\* a hand-written file that names the profile work and holds no profiles
NamedFile == [NoFile EXCEPT !.kind = "object", !.profile = "work"]
SeedFiles == {InitialFile, InvalidFile, NamedFile}

\* an option of writeConfigProfile: whether the options object has the key, and
\* its value (Undef for undefined)
NoOption == [has |-> FALSE, v |-> Undef]
Option(v) == [has |-> TRUE, v |-> v]
WriteOptions(profile, apiBaseUrl, token, cookie) ==
  [profile |-> profile, apiBaseUrl |-> apiBaseUrl, token |-> token, cookie |-> cookie]
NoWriteOptions == WriteOptions("", NoOption, NoOption, NoOption)

\* String.prototype.trim over the profile flags of the model
ProfileFlags == {"", "default", "work", " work "}
trimName(name) == IF name = " work " THEN "work" ELSE name

\* JSON.stringify leaves out a property whose value is undefined
Stringified(v) == IF v = Undef THEN Absent ELSE v

\* an upsert that assigns the three fields whether the options have them or not
writeConfigProfile_AssignsAll(file, options) ==
  LET explicitProfile == trimName(options.profile)
      profileName == IF explicitProfile # "" THEN explicitProfile
                     ELSE IF file.profile # Absent /\ trimName(file.profile) # ""
                     THEN trimName(file.profile)
                     ELSE "default"
      currentProfile == file.profiles[profileName]
  IN IF file.kind = "invalid" THEN file
     ELSE [file EXCEPT !.kind = "object", !.profile = profileName,
             !.profiles[profileName] =
               [currentProfile EXCEPT !.present = TRUE,
                                      !.apiBaseUrl = Stringified(options.apiBaseUrl.v),
                                      !.token = Stringified(options.token.v),
                                      !.cookie = Stringified(options.cookie.v)]]

\* lines 186-232: the file after writeConfigProfile(options). A file that is no
\* JSON makes readJsonIfExists throw: nothing is written.
writeConfigProfile(file, options) ==
  LET explicitProfile == trimName(options.profile)
      profileName == IF explicitProfile # "" THEN explicitProfile
                     ELSE IF file.profile # Absent /\ trimName(file.profile) # ""
                     THEN trimName(file.profile)
                     ELSE "default"
      currentProfile == file.profiles[profileName]
      nextProfile ==
        [currentProfile EXCEPT
           !.present = TRUE,
           !.apiBaseUrl = IF options.apiBaseUrl.has THEN options.apiBaseUrl.v ELSE @,
           !.token = IF options.token.has THEN options.token.v ELSE @,
           !.cookie = IF options.cookie.has THEN options.cookie.v ELSE @]
  IN IF file.kind = "invalid" THEN file
     ELSE [file EXCEPT !.kind = "object", !.profile = profileName,
             !.profiles[profileName] =
               [nextProfile EXCEPT !.apiBaseUrl = Stringified(@),
                                   !.token = Stringified(@),
                                   !.cookie = Stringified(@)]]

\* the config file and the writeConfigProfile calls made on it
NoConfig == [file |-> NoFile, writes |-> 0, last |-> NoWriteOptions, by |-> "none"]

\* ------------------------------------------------------------ a SocketIoTransport of its own
MaxTransportCalls == 4   \* the most calls made on one transport

\* a call made on the transport: what it came to, and the state of the socket
\* when it settled
TransportCall(fn, result, socketAt) == [fn |-> fn, result |-> result, socketAt |-> socketAt]
NoTransport == [socket |-> "null", calls |-> <<>>]

\* ------------------------------------------------------------ state
VARIABLES
  server,      \* the server's merged state of document DocId
  root,        \* the doc ids in the pages list of the workspace root document
  op,          \* the operation in flight, or the last one settled
  socket,      \* SocketIoTransport.socket of the operation's own transport
  closeCalls,  \* close() calls made on the transport the caller supplied
  events,      \* the events the operation has emitted, in order
  doc,         \* the operation's local Y.Doc
  pushed,      \* the update of the operation's space:push-doc-update for DocId
  prev,        \* history: the server's state before the last merged push
  expect,      \* history: what createDoc and the merged appends put into the document
  appends,     \* history: appendText calls made on the document since it was created
  nOps,        \* operations started
  joins,       \* history: space:join events emitted on the transport the caller supplied
  built,       \* the last buildInitialPageUpdate call and its result
  call,        \* the request() or rpc() call in flight, or the one settled
  exchanges,   \* history: what each HTTP exchange of the call came to, in order
  sleeps,      \* history: the backoff sleeps the call has made
  lastSleep,   \* history: the length of the last backoff sleep, in milliseconds
  tool,        \* the MCP tool call made, with what request() came to and its outcome
  search,      \* the keywordSearchWithFallback call: its position, its variables and,
               \* as history, the calls it made and what they came to
  config,      \* the config file, and as history the writeConfigProfile calls made
  transport    \* a SocketIoTransport a caller keeps: its socket and, as history, the
               \* calls made on it

vars == <<server, root, op, socket, closeCalls, events, doc, pushed, prev, expect,
          appends, nOps, joins, built, call, exchanges, sleeps, lastSleep, tool,
          search, config, transport>>
xvars == <<tool, search, config, transport>>
httpvars == <<call, exchanges, sleeps, lastSleep>>
rtvars == <<server, root, op, socket, closeCalls, events, doc, pushed, prev, expect,
            appends, nOps, joins>>

NoOp ==
  [kind |-> "none", own |-> FALSE, title |-> Unset, text |-> Unset, pc |-> "idle",
   status |-> "idle", waiting |-> FALSE, join |-> "none", pull |-> "none",
   havePulled |-> FALSE, noteId |-> NoKey, acked |-> FALSE, ack |-> AckUndefined,
   err |-> NoErr, accepted |-> FALSE, rootLoad |-> "none", rootPush |-> "none",
   docId |-> Unset, ok |-> FALSE]

\* no document yet: not created, no content, no appended texts
NoDoc == [created |-> FALSE, content |-> Unset, texts |-> <<>>]

NoBuild == [called |-> FALSE, title |-> Unset, content |-> Unset, update |-> EmptyDoc]

Init ==
  /\ server = EmptyDoc /\ root = {} /\ op = NoOp /\ socket = "null"
  /\ closeCalls = 0 /\ events = <<>> /\ doc = EmptyDoc /\ pushed = EmptyDoc
  /\ prev = EmptyDoc /\ expect = NoDoc /\ appends = 0 /\ nOps = 0 /\ joins = 0
  /\ built = NoBuild
  /\ call = NoCall /\ exchanges = <<>> /\ sleeps = 0 /\ lastSleep = 0
  /\ tool = NoTool /\ search = NoSearch
  /\ config = NoConfig /\ transport = NoTransport

Running == op.status = "running"
At(kind, pc) == Running /\ ~op.waiting /\ op.kind = kind /\ op.pc = pc
Event(name, docId) == [event |-> name, docId |-> docId]

\* an operation that closes whatever transport it used
NeedClose_Always(o) == TRUE

\* let needClose = !opts.transport
NeedClose(o) == o.own

\* finally { if (needClose) await transport.close(); }
Finally(o) ==
  IF NeedClose(o)
  THEN IF o.own THEN socket' = "null" /\ UNCHANGED closeCalls
       ELSE closeCalls' = closeCalls + 1 /\ UNCHANGED socket
  ELSE UNCHANGED <<socket, closeCalls>>

\* the operation's promise settles from inside its try block
\* (createDoc returns { docId }, deleteDocRealtime { ok: true })
Resolve(o) ==
  /\ op' = [o EXCEPT !.status = "resolved", !.pc = "done",
                     !.docId = IF o.kind = "create" THEN DocId ELSE Unset,
                     !.ok = (o.kind = "delete")]
  /\ Finally(o)
Reject(o, err) ==
  op' = [o EXCEPT !.status = "rejected", !.pc = "done", !.err = err] /\ Finally(o)
\* the emit never answers: the await never returns
Hang(o) == op' = [o EXCEPT !.waiting = TRUE] /\ UNCHANGED <<socket, closeCalls>>

\* ------------------------------------------------------------ the caller
\* The caller either hands its one transport to every call or lets every call
\* open a connection of its own.
Start(kind, own, title, text) ==
  /\ ~Running /\ nOps < MaxOps
  /\ nOps = 0 \/ own = op.own
  /\ nOps' = nOps + 1
  /\ op' = [NoOp EXCEPT !.kind = kind, !.own = own, !.title = title, !.text = text,
                        !.status = "running",
                        !.pc = IF own THEN "connect" ELSE "join"]
  /\ socket' = "null" /\ events' = <<>> /\ doc' = EmptyDoc /\ pushed' = EmptyDoc
  /\ appends' = IF kind = "append" THEN appends + 1 ELSE appends
  /\ UNCHANGED <<server, root, closeCalls, prev, expect, joins, built, httpvars, xvars>>

\* createDoc(opts): a new docId, so only while DocId is not in use
StartCreate ==
  /\ server = EmptyDoc
  /\ \E own \in BOOLEAN, title \in CreateTitles, content \in CreateContents :
       Start("create", own, title, content)

StartAppend == \E own \in BOOLEAN, text \in Texts : Start("append", own, Unset, text)

StartDelete == \E own \in BOOLEAN : Start("delete", own, Unset, Unset)

\* ------------------------------------------------------------ ensureTransport
\* SocketIoTransport.connect() of the operation's own transport. It runs before
\* the try block: a rejection leaves the operation without its finally.
ConnectOutcomes == {"ok", "nobase", "nomodule", "timeout", "connect_error"}

Connect ==
  /\ Running /\ ~op.waiting /\ op.pc = "connect"
  /\ \E out \in ConnectOutcomes :
       /\ socket' = IF out \in {"nobase", "nomodule"} THEN "null"
                    ELSE IF out = "ok" THEN "connected" ELSE "connecting"
       /\ op' = IF out = "ok" THEN [op EXCEPT !.pc = "join"]
                ELSE [op EXCEPT !.status = "rejected", !.pc = "done",
                                !.err = Thrown("connect", out)]
  /\ UNCHANGED <<server, root, closeCalls, events, doc, pushed, prev, expect, appends,
                 nOps, joins, built, httpvars, xvars>>

\* ------------------------------------------------------------ joinWorkspace
JoinOutcomes ==
  {Answered(AckUndefined), Answered([obj |-> TRUE, accepted |-> Unset,
                                     error |-> [t |-> "str", s |-> "quota exceeded"]]),
   Rejected, Never}

AfterJoin(kind) ==
  IF kind = "create" THEN "push" ELSE IF kind = "append" THEN "pull" ELSE "delete"

\* await transport.emit('space:join', ...) has answered: whatever the
\* acknowledgement holds, joinWorkspace returns and the operation goes on
joinWorkspace(o, ack) == [o EXCEPT !.pc = AfterJoin(o.kind)]

Join ==
  /\ Running /\ ~op.waiting /\ op.pc = "join"
  /\ events' = Append(events, Event("space:join", "ws"))
  /\ \E out \in JoinOutcomes :
       LET o == [op EXCEPT !.join = IF out.res = "ack" /\ out.ack.error # NoError
                                    THEN "ackerror" ELSE out.res]
       IN IF out.res = "never" THEN Hang(o)
          ELSE IF out.res = "reject" THEN Reject(o, Thrown("space:join", "emit"))
          ELSE op' = joinWorkspace(o, out.ack) /\ UNCHANGED <<socket, closeCalls>>
  /\ joins' = IF op.own THEN joins ELSE joins + 1
  /\ UNCHANGED <<server, root, doc, pushed, prev, expect, appends, nOps, built, httpvars, xvars>>

\* ------------------------------------------------------------ appendText: pull and transact
\* What the guarded space:load-doc comes to.
\*   reject     the emit rejects          timeout   no answer within the 3 s of withTimeout
\*   undefined  no value                  nostring  an object without a string missing / state
\*   empty      '' or zero bytes          garbage   bytes Y.applyUpdate throws on
\*   snapshot   the server's current state
PullOutcomes == {"reject", "timeout", "undefined", "nostring", "empty", "garbage", "snapshot"}

\* lines 396-420: havePulled and the local document after the try / catch
\* how the pull ended, as the operation tells it apart
PullKind(out) ==
  IF out \in {"reject", "timeout", "snapshot"} THEN out ELSE "nothing"

PulledDoc(out, state) ==
  IF out = "snapshot" THEN [havePulled |-> TRUE, doc |-> applyUpdate(EmptyDoc, state)]
  ELSE [havePulled |-> FALSE, doc |-> EmptyDoc]

Pull ==
  /\ At("append", "pull")
  /\ events' = Append(events, Event("space:load-doc", DocId))
  /\ \E out \in PullOutcomes, client \in Clients \ ClientsIn(server) :
       LET got == PulledDoc(out, encodeStateAsUpdate(server))
           noteId == FindNoteId(got.doc, got.havePulled, DocId)
           paraId == NewParaId(KeysIn(server))
           o == [op EXCEPT !.pull = PullKind(out), !.havePulled = got.havePulled,
                           !.noteId = noteId]
       IN IF noteId = NoKey
          THEN /\ Reject(o, Thrown("locate", "append failed: could not locate note block under page"))
               /\ doc' = got.doc
          ELSE /\ doc' = AppendTransact(got.doc, client, noteId, paraId, op.text)
               /\ op' = [o EXCEPT !.pc = "push"]
               /\ UNCHANGED <<socket, closeCalls>>
  /\ UNCHANGED <<server, root, pushed, prev, expect, appends, nOps, joins, built, httpvars, xvars>>

\* ------------------------------------------------------------ push
\* The server merges an update it acknowledges without error and without
\* accepted: false; an update it never acknowledges may or may not be applied.
Merges(out) == out.res = "ack" /\ out.ack.error = NoError /\ out.ack.accepted # "false"

\* what the document was given, once the operation's push is merged
Expected(o) ==
  IF o.kind = "create" THEN [created |-> TRUE, content |-> o.text, texts |-> <<>>]
  ELSE [expect EXCEPT !.texts = Append(@, StringOf(o.text))]

ServerMerge(update, o) ==
  /\ prev' = server
  /\ server' = applyUpdate(server, update)
  /\ expect' = Expected(o)
  /\ appends' = IF o.kind = "create" THEN 0 ELSE appends

ServerIgnore(o) == UNCHANGED <<server, prev, expect, appends>>

\* an update that leaves the paragraph to a later push
createDocUpdate_WithoutParagraph(client, docId, paraId, title, content) ==
  encodeStateAsUpdate(Scaffold(client, PageIdOf(docId), NoteIdOf(docId), paraId,
                               title, Unset))

\* createDoc lines 322-360: the new document's update
createDocUpdate(client, docId, paraId, title, content) ==
  encodeStateAsUpdate(Scaffold(client, PageIdOf(docId), NoteIdOf(docId), paraId,
                               title, content))

\* an acknowledgement counts as accepted only when it says so
AcceptedOf_OnlyTrue(ack) == ack.accepted = "true"

\* const accepted = (res as any)?.accepted !== false
AcceptedOf(ack) == ack.accepted # "false"

\* after the push is acknowledged and ensureAckOk has returned
AfterPush(o) ==
  IF o.kind = "create"
  THEN op' = [o EXCEPT !.pc = "rootLoad"] /\ UNCHANGED <<socket, closeCalls>>
  ELSE Resolve([o EXCEPT !.accepted = AcceptedOf(o.ack)])

PushAnswer(o, update, out) ==
  IF out.res = "never"
  THEN /\ Hang(o)
       /\ \/ ServerMerge(update, o)
          \/ ServerIgnore(o)
  ELSE /\ IF Merges(out) THEN ServerMerge(update, o) ELSE ServerIgnore(o)
       /\ IF out.res = "reject" THEN Reject(o, Thrown("space:push-doc-update", "emit"))
          ELSE LET a == [o EXCEPT !.acked = TRUE, !.ack = out.ack]
                   err == ensureAckOk(out.ack, "space:push-doc-update")
               IN IF err.thrown THEN Reject(a, err) ELSE AfterPush(a)

PushCreate ==
  /\ At("create", "push")
  /\ events' = Append(events, Event("space:push-doc-update", DocId))
  /\ \E out \in EmitOutcomes, client \in Clients \ ClientsIn(server) :
       LET update == createDocUpdate(client, DocId, NewParaId(KeysIn(server)),
                                     op.title, op.text)
       IN /\ doc' = update
          /\ pushed' = update
          /\ PushAnswer(op, update, out)
  /\ UNCHANGED <<root, nOps, joins, built, httpvars, xvars>>

PushAppend ==
  /\ At("append", "push")
  /\ events' = Append(events, Event("space:push-doc-update", DocId))
  /\ \E out \in EmitOutcomes :
       LET update == encodeStateAsUpdate(doc)
       IN /\ pushed' = update
          /\ PushAnswer(op, update, out)
  /\ UNCHANGED <<root, doc, nOps, joins, built, httpvars, xvars>>

\* ------------------------------------------------------------ deleteDocRealtime
Delete ==
  /\ At("delete", "delete")
  /\ events' = Append(events, Event("space:delete-doc", DocId))
  /\ \E out \in EmitOutcomes :
       /\ IF out.res = "never"
          THEN /\ Hang(op)
               /\ server' \in {server, EmptyDoc}
          ELSE /\ server' = IF Merges(out) THEN EmptyDoc ELSE server
               /\ IF out.res = "reject" THEN Reject(op, Thrown("space:delete-doc", "emit"))
                  ELSE LET a == [op EXCEPT !.acked = TRUE, !.ack = out.ack]
                           err == ensureAckOk(out.ack, "space:delete-doc")
                       IN IF err.thrown THEN Reject(a, err) ELSE Resolve(a)
       /\ expect' = IF server' = server THEN expect ELSE NoDoc
       /\ appends' = IF server' = server THEN appends ELSE 0
  /\ prev' = server
  /\ UNCHANGED <<root, doc, pushed, nOps, joins, built, httpvars, xvars>>

\* ------------------------------------------------------------ appendDocMetaToWorkspaceRoot
\* What the space:load-doc of the workspace root comes to (lines 253-272).
RootLoadOutcomes ==
  {"reject", "never", "noobject", "error", "nosnapshot", "empty", "garbage", "snapshot"}

\* a root step whose failure fails the whole operation
RootStepFails_Rethrow(o, at) == Reject(o, Thrown(at, "workspace root"))

\* lines 259-267, 271, 285-287, 303-305: the root step gives up and returns; createDoc goes on
\* to its return statement
RootStepFails(o, at) == Resolve(o)

RootLoad ==
  /\ At("create", "rootLoad")
  /\ events' = Append(events, Event("space:load-doc", "ws"))
  /\ \E out \in RootLoadOutcomes :
       LET o == [op EXCEPT !.rootLoad = out]
       IN IF out = "never" THEN Hang(o)
          ELSE IF out = "snapshot"
               THEN IF DocId \notin root
                    THEN op' = [o EXCEPT !.pc = "rootPush"] /\ UNCHANGED <<socket, closeCalls>>
                    ELSE Resolve(o)
               ELSE RootStepFails(o, "space:load-doc")
  /\ UNCHANGED <<server, root, doc, pushed, prev, expect, appends, nOps, joins, built, httpvars, xvars>>

\* what the root push comes to: its acknowledgement is not looked at
RootPushOutcomes ==
  {Answered(AckUndefined), Answered(CHOOSE a \in ErrorAcks : a.error.s = "denied"),
   Rejected, Never}

RootPushKind(out) ==
  IF out.res = "ack" /\ out.ack.error # NoError THEN "ackerror" ELSE out.res

\* the root push: its acknowledgement is not looked at, its rejection is caught
RootPush ==
  /\ At("create", "rootPush")
  /\ events' = Append(events, Event("space:push-doc-update", "ws"))
  /\ \E out \in RootPushOutcomes :
       LET o == [op EXCEPT !.rootPush = RootPushKind(out)]
       IN /\ IF out.res = "never" THEN Hang(o)
             ELSE IF Merges(out) THEN Resolve(o)
             ELSE RootStepFails(o, "space:push-doc-update")
          /\ root' = IF Merges(out) THEN root \cup {DocId} ELSE root
  /\ UNCHANGED <<server, doc, pushed, prev, expect, appends, nOps, joins, built, httpvars, xvars>>

Next ==
  \/ StartCreate \/ StartAppend \/ StartDelete
  \/ Connect \/ Join \/ Pull \/ PushCreate \/ PushAppend \/ Delete
  \/ RootLoad \/ RootPush

Spec == Init /\ [][Next]_vars

\* ------------------------------------------------------------ buildInitialPageUpdate alone
\* a caller applies buildInitialPageUpdate(title, content) and decodes the result
Build ==
  /\ \E title \in Titles, content \in Contents, client \in Clients :
       \E pageId \in RandIds, noteId \in RandIds, paraId \in RandIds :
         /\ pageId # noteId /\ paraId # pageId /\ paraId # noteId
         /\ built' = [called |-> TRUE, title |-> title, content |-> content,
                      update |-> buildInitialPageUpdate(client, pageId, noteId, paraId,
                                                        title, content)]
  /\ UNCHANGED <<rtvars, httpvars, xvars>>

NextBuild == Build

SpecBuild == Init /\ [][NextBuild]_vars

\* ------------------------------------------------------------ request() and rpc() as steps
Calling == call.status = "running"

\* request(opts) is called: by a caller of its own, or by rpc(), which passes
\* responseType 'text' and no maxAttempts (mcp.ts lines 99-110)
HttpStart ==
  /\ call.status = "idle"
  /\ \E layer \in {"request", "rpc", "gql"}, m \in MaxAttemptsOpts, type \in ResponseTypes,
        o \in HttpOptsSet :
       /\ layer = "request" => o = NoHttpOpts
       /\ layer = "rpc" =>
            (m = rpcRequestOptions(o).maxAttempts /\ type = rpcRequestOptions(o).responseType)
       /\ layer = "gql" => (m = postJson(o).maxAttempts /\ type = postJson(o).responseType)
       /\ call' = [NoCall EXCEPT !.layer = layer, !.httpOpts = o, !.maxAttempts = m,
                                 !.responseType = type, !.pc = "send",
                                 !.status = "running", !.attempt = 1]
  /\ UNCHANGED <<exchanges, sleeps, lastSleep, rtvars, built, xvars>>

\* request() throws err: the call rejects with it (rpc lets it pass)
Throw(c, err) == [c EXCEPT !.status = "rejected", !.pc = "done", !.err = err]

\* config.ts lines 404-422: postJson has thrown err in the exchange that came to
\* out. err.response.body is there for a ResponseError made of a response. The
\* inner try parses it and throws the Error made of a non-empty errors array;
\* the inner catch takes that Error as it takes a parse failure, and line 421
\* throws err.
gqlCatch(c, err, out) ==
  LET hasBody == err.name = "ResponseError" /\ out.kind = "response"
      p == IF hasBody THEN JsonParse(out.body) ELSE [ok |-> FALSE, value |-> NoValue]
      innerThrows == hasBody /\ (~p.ok \/ Len(p.value.errors) > 0)
  IN IF innerThrows THEN Throw(c, err)   \* catch { }: fall through to throw err
     ELSE Throw(c, err)

\* config.ts lines 423-429: postJson has returned res
gqlFinish(c, res) ==
  LET env == res.data.value
  IN IF Len(env.errors) > 0 THEN Throw([c EXCEPT !.res = res], GqlError(env.errors))
     ELSE [c EXCEPT !.status = "resolved", !.pc = "done", !.res = res,
                    !.value = ResultValue(IF env.hasData THEN "data" ELSE "object",
                                          "", <<>>, <<>>)]

\* request() returns res: the call resolves with it, or rpc goes on to unwrap it
\* and gql to read the envelope
Return(c, res) ==
  IF c.layer = "gql" THEN gqlFinish(c, res)
  ELSE IF c.layer = "rpc"
  THEN LET r == rpcFinish(res)
       IN IF r.kind = "return"
          THEN [c EXCEPT !.status = "resolved", !.pc = "done", !.res = res,
                         !.value = r.value]
          ELSE Throw([c EXCEPT !.res = res], r.err)
  ELSE [c EXCEPT !.status = "resolved", !.pc = "done", !.res = res]

\* one pass of the retry loop: the exchange with the backend and what request()
\* makes of it (lines 218-318)
Exchange ==
  /\ Calling /\ call.pc = "send"
  /\ \E out \in OutcomesOf(call.layer) :
       LET isFinal == call.attempt = maxAttemptsOf(call.maxAttempts)
           a == Attempt(out, call.attempt, isFinal, call.responseType)
       IN /\ exchanges' = Append(exchanges, [attempt |-> call.attempt, out |-> out])
          /\ call' = IF a.kind = "return" THEN Return(call, a.res)
                     ELSE IF a.kind = "throw"
                     THEN IF call.layer = "gql" THEN gqlCatch(call, a.err, out)
                          ELSE Throw(call, a.err)
                     ELSE [call EXCEPT !.pc = "sleep"]
  /\ UNCHANGED <<sleeps, lastSleep, rtvars, built, xvars>>

\* lines 320-328: the backoff sleep, attempt++ and the loop test (the error
\* after the loop is thrown without its cause here)
Backoff ==
  /\ Calling /\ call.pc = "sleep"
  /\ \E jitter \in Jitters :
       lastSleep' = Max(0, BackoffBaseMs * Pow2(call.attempt - 1) + jitter)
  /\ sleeps' = sleeps + 1
  /\ call' = IF call.attempt + 1 <= maxAttemptsOf(call.maxAttempts)
             THEN [call EXCEPT !.attempt = @ + 1, !.pc = "send"]
             ELSE Throw([call EXCEPT !.attempt = @ + 1],
                        HttpError("HttpError", Msg("Request failed"), NoStatus, Unset,
                                  maxAttemptsOf(call.maxAttempts), FALSE))
  /\ UNCHANGED <<exchanges, rtvars, built, xvars>>

NextHttp == HttpStart \/ Exchange \/ Backoff

SpecHttp == Init /\ [][NextHttp]_vars

\* ------------------------------------------------------------ a tool call, request() given
\* one of the tool operations is called and request() comes to out: the
\* operation lets whatever request() or rpc() throws pass
ToolCall ==
  /\ tool.status = "idle"
  /\ \E name \in ToolOps, out \in RequestOutcomes :
       LET r == IF out.kind = "throw" THEN RpcThrow(out.err) ELSE rpcFinish(out.res)
       IN tool' = [name |-> name, out |-> out,
                   status |-> IF r.kind = "throw" THEN "rejected" ELSE "resolved",
                   value |-> IF r.kind = "throw" THEN NoResult
                             ELSE ToolReturn(name, r.value),
                   err |-> r.err]
  /\ UNCHANGED <<rtvars, built, httpvars, search, config, transport>>

NextMcp == ToolCall

SpecMcp == Init /\ [][NextMcp]_vars

\* ------------------------------------------------------------ keywordSearchWithFallback as steps
Log(s, fn, docId) == [s EXCEPT !.calls = Append(@, Called(fn, s.first, docId))]

\* line 138: return { query, source, items }
Return138(s) == [s EXCEPT !.status = "resolved", !.pc = "done"]

\* lines 81-88: after the tiers, the content scan or the return
Step4(s) ==
  IF shouldScanContent(s.items, s.source, s.first) THEN [s EXCEPT !.pc = "scanTools"]
  ELSE Return138(s)

\* a resolver that lists the documents whatever the tiers found
Step3_AlwaysLists(s) == [s EXCEPT !.pc = "list"]

\* line 62: the title scan runs when the tiers left no items
Step3(s) == IF Len(s.items) = 0 THEN [s EXCEPT !.pc = "list"] ELSE Step4(s)

\* an indexed tier whose empty answer sends the resolver to the tool tier
AfterGql_EmptyTriesTools(s, out) ==
  IF out.kind = "throw" \/ out.list = <<>> THEN [s EXCEPT !.pc = "tools", !.source = "graphql"]
  ELSE Step3([s EXCEPT !.items = MapSeq(ProjectGql, out.list), !.source = "graphql"])

\* lines 38-49: the indexed tier has answered
AfterGql(s, out) ==
  IF out.kind = "throw" THEN [s EXCEPT !.pc = "tools"]
  ELSE Step3([s EXCEPT !.items = MapSeq(ProjectGql, out.list), !.source = "graphql"])

\* keywordSearchWithFallback(workspaceId, query, first, httpOpts) is called
SearchStart ==
  /\ search.status = "idle"
  /\ \E query \in Queries, first \in Firsts :
       search' = [NoSearch EXCEPT !.status = "running", !.pc = "gql",
                                  !.query = query, !.first = first]
  /\ UNCHANGED <<rtvars, built, httpvars, tool, config, transport>>

SearchAt(pc) == search.status = "running" /\ search.pc = pc

\* lines 38-49: searchDocsByKeyword
GqlSearch ==
  /\ SearchAt("gql")
  /\ \E out \in GqlOutcomes(search.first) :
       search' = AfterGql([Log(search, "searchDocsByKeyword", Unset) EXCEPT !.gql = out], out)
  /\ UNCHANGED <<rtvars, built, httpvars, tool, config, transport>>

\* lines 50-52 and 56-58: toolsList of the tool tier
ToolsList ==
  /\ SearchAt("tools")
  /\ \E out \in ToolsOutcomes :
       LET s == [Log(search, "toolsList", Unset) EXCEPT !.tools = out]
       IN search' = IF "keyword_search" \in out.names THEN [s EXCEPT !.pc = "keyword"]
                    ELSE Step3(s)
  /\ UNCHANGED <<rtvars, built, httpvars, tool, config, transport>>

\* lines 53-58: keywordSearch, called without a limit
KeywordSearch ==
  /\ SearchAt("keyword")
  /\ \E out \in KeywordOutcomes :
       LET s == [Log([search EXCEPT !.first = NotGiven], "keywordSearch", Unset)
                   EXCEPT !.keyword = out, !.first = search.first]
       IN search' = IF out.kind = "throw" THEN Step3(s)
                    ELSE Step3([s EXCEPT !.items = out.list, !.source = "mcp"])
  /\ UNCHANGED <<rtvars, built, httpvars, tool, config, transport>>

\* lines 70-76: the title scan over the listing at hand
TitleScan(s, edges) ==
  LET found == TitleMatches(edges, s.query)
  IN Step4([s EXCEPT !.docsConn = Gave(edges), !.items = found, !.titleItems = found,
                     !.source = "fallback"])

\* lines 64-66: listRecentlyUpdatedDocs of the title scan
ListRecent ==
  /\ SearchAt("list")
  /\ \E out \in ListOutcomes(search.first) :
       LET s == [Log(search, "listRecentlyUpdatedDocs", Unset) EXCEPT !.recent = out]
       IN search' = IF out.kind = "throw" THEN [s EXCEPT !.pc = "listDocs"]
                    ELSE TitleScan(s, out.list)
  /\ UNCHANGED <<rtvars, built, httpvars, tool, config, transport>>

\* lines 66-69: listDocs, outside any try block
ListDocs ==
  /\ SearchAt("listDocs")
  /\ \E out \in ListOutcomes(search.first) :
       LET s == [Log(search, "listDocs", Unset) EXCEPT !.docs = out]
       IN search' = IF out.kind = "throw" THEN [s EXCEPT !.status = "rejected", !.pc = "done"]
                    ELSE TitleScan(s, out.list)
  /\ UNCHANGED <<rtvars, built, httpvars, tool, config, transport>>

\* a scan whose matches take the place of the items found before
FinishScan_ReplacesItems(s) ==
  Return138(IF Len(s.scan.matches) > 0 THEN [s EXCEPT !.items = s.scan.matches] ELSE s)

\* lines 126-131: the scan is over
FinishScan(s) ==
  Return138(
    IF Len(s.scan.matches) > 0
    THEN [s EXCEPT !.items = IF s.scan.before # 0 THEN s.items \o s.scan.matches
                             ELSE s.scan.matches,
                   !.source = IF s.scan.before = 0 /\ s.source # "mcp" THEN "fallback"
                              ELSE @]
    ELSE s)

\* lines 102-105: on to the next edge whose document is not among the items
RECURSIVE NextEdge(_, _)
NextEdge(s, i) ==
  IF i > Len(s.scan.edges) THEN FinishScan([s EXCEPT !.scan.i = i])
  ELSE IF s.scan.edges[i].id \in s.scan.seen THEN NextEdge(s, i + 1)
  ELSE [s EXCEPT !.scan.i = i, !.pc = "read"]

\* lines 93-102: the scan begins over the listing at hand
BeginScan(s, edges) ==
  NextEdge([s EXCEPT !.scan = [edges |-> edges, i |-> 1, matches |-> <<>>,
                               before |-> Len(s.items), seen |-> SeenOf(s.items),
                               remaining |-> remainingOf(s.items, s.first)]], 1)

\* lines 90-92 and 133-135: toolsList of the content scan
ScanTools ==
  /\ SearchAt("scanTools")
  /\ \E out \in ToolsOutcomes :
       LET s == [Log(search, "toolsList", Unset) EXCEPT !.scanTools = out]
       IN search' = IF "read_document" \notin out.names THEN Return138(s)
                    ELSE IF s.docsConn.kind = "list" THEN BeginScan(s, s.docsConn.list)
                    ELSE [s EXCEPT !.pc = "scanList"]
  /\ UNCHANGED <<rtvars, built, httpvars, tool, config, transport>>

\* line 92: listRecentlyUpdatedDocs of the content scan
ScanList ==
  /\ SearchAt("scanList")
  /\ \E out \in ListOutcomes(search.first) :
       LET s == [Log(search, "listRecentlyUpdatedDocs", Unset) EXCEPT !.scanList = out]
       IN search' = IF out.kind = "throw" THEN Return138(s) ELSE BeginScan(s, out.list)
  /\ UNCHANGED <<rtvars, built, httpvars, tool, config, transport>>

\* a failed read that fails the search
AfterReadThrows_Rejects(s) == [s EXCEPT !.status = "rejected", !.pc = "done"]

\* lines 122-124: a failed read is passed over
AfterReadThrows(s) == NextEdge(s, s.scan.i + 1)

\* lines 106-121: readDocument of the edge at hand
Read ==
  /\ SearchAt("read")
  /\ \E out \in ReadOutcomes :
       LET node == search.scan.edges[search.scan.i]
           s == [Log(search, "readDocument", node.id)
                   EXCEPT !.reads = Append(@, [docId |-> node.id, out |-> out])]
           q == toLowerCase(s.query)
           idx == indexOf(toLowerCase(out.list), q)
           hit == Item(node.id, node.title, NoTxt, Txt(snippetAt(out.list, idx, q)),
                       Unset, Unset, Unset)
           m == [s EXCEPT !.scan.matches = Append(@, hit)]
       IN search' = IF out.kind = "throw" THEN AfterReadThrows(s)
                    ELSE IF idx < 0 THEN NextEdge(s, s.scan.i + 1)
                    ELSE IF m.scan.remaining.given
                            /\ Len(m.scan.matches) >= m.scan.remaining.n
                    THEN FinishScan(m)
                    ELSE NextEdge(m, m.scan.i + 1)
  /\ UNCHANGED <<rtvars, built, httpvars, tool, config, transport>>

NextSearch ==
  \/ SearchStart \/ GqlSearch \/ ToolsList \/ KeywordSearch \/ ListRecent \/ ListDocs
  \/ ScanTools \/ ScanList \/ Read

SpecSearch == Init /\ [][NextSearch]_vars

\* ------------------------------------------------------------ auth login, auth logout
\* a config file is there before the CLI runs
SeedConfig ==
  /\ config.writes = 0 /\ config.file = NoFile
  /\ \E f \in SeedFiles : config' = [config EXCEPT !.file = f]
  /\ UNCHANGED <<rtvars, built, httpvars, tool, search, transport>>

\* the call writeConfigProfile(options) made by the command by
Written(c, options, by) ==
  [file |-> writeConfigProfile(c.file, options), writes |-> c.writes + 1,
   last |-> options, by |-> by]

\* part_005 lines 725-802: auth login with --profile, --base-url, --token and
\* --cookie as far as given (the prompt's answers count as given); without token
\* and cookie it returns before it writes. All three keys are in the options.
AuthLogin ==
  /\ config.writes < MaxWrites
  /\ \E profileFlag \in ProfileFlags, apiBaseUrl \in {Undef, "https://new-default"},
        token \in {Undef, "new-token"}, cookie \in {Undef, "new-cookie"} :
       /\ token # Undef \/ cookie # Undef
       /\ config' = Written(config, WriteOptions(profileFlag, Option(apiBaseUrl),
                                                 Option(token), Option(cookie)), "login")
  /\ UNCHANGED <<rtvars, built, httpvars, tool, search, transport>>

\* part_005 lines 866-879: auth logout; token and cookie are in the options, both
\* undefined, apiBaseUrl is not
AuthLogout ==
  /\ config.writes < MaxWrites
  /\ \E profileFlag \in ProfileFlags :
       config' = Written(config, WriteOptions(profileFlag, NoOption, Option(Undef),
                                              Option(Undef)), "logout")
  /\ UNCHANGED <<rtvars, built, httpvars, tool, search, transport>>

\* part_002 lines 70-75: a caller of the library hands over apiBaseUrl and token only
WriteProfile ==
  /\ config.writes < MaxWrites
  /\ \E profile \in ProfileNames :
       config' = Written(config, WriteOptions(profile, Option("https://new-default"),
                                              Option("new-token"), NoOption), "library")
  /\ UNCHANGED <<rtvars, built, httpvars, tool, search, transport>>

NextConfig == SeedConfig \/ AuthLogin \/ AuthLogout \/ WriteProfile

SpecConfig == Init /\ [][NextConfig]_vars

\* ------------------------------------------------------------ SocketIoTransport, called by its owner
\* part_003 lines 131-170: connect(). With a socket at hand it returns at once.
\* Otherwise the base URL and the module are looked at, the socket is stored, and
\* the first of 'connect', 'connect_error' and the timer settles the call; the
\* socket stays stored when the call rejects.
TransportConnect ==
  /\ Len(transport.calls) < MaxTransportCalls
  /\ IF transport.socket # "null"
     THEN transport' = [transport EXCEPT
                          !.calls = Append(@, TransportCall("connect", "resolved",
                                                            transport.socket))]
     ELSE \E out \in ConnectOutcomes :
            LET sock == IF out \in {"nobase", "nomodule"} THEN "null"
                        ELSE IF out = "ok" THEN "connected" ELSE "connecting"
            IN transport' = [socket |-> sock,
                             calls |-> Append(transport.calls,
                                              TransportCall("connect",
                                                            IF out = "ok" THEN "resolved" ELSE out,
                                                            sock))]
  /\ UNCHANGED <<rtvars, built, httpvars, tool, search, config>>

\* part_003 lines 172-185: emit() throws without a socket, and hands the event to
\* the socket otherwise
TransportEmit ==
  /\ Len(transport.calls) < MaxTransportCalls
  /\ transport' = [transport EXCEPT
                     !.calls = Append(@, TransportCall("emit",
                                                       IF transport.socket = "null"
                                                       THEN "transport not connected"
                                                       ELSE "sent",
                                                       transport.socket))]
  /\ UNCHANGED <<rtvars, built, httpvars, tool, search, config>>

\* part_003 lines 187-201: close() forgets the socket and disconnects it
TransportClose ==
  /\ Len(transport.calls) < MaxTransportCalls
  /\ transport' = [socket |-> "null",
                   calls |-> Append(transport.calls,
                                    TransportCall("close", "resolved", "null"))]
  /\ UNCHANGED <<rtvars, built, httpvars, tool, search, config>>

\* a socket that has not connected yet reports 'connect' (socket.io-client goes
\* on trying after a connect_error, and knows nothing of the timer of connect())
SocketReportsConnect ==
  /\ transport.socket = "connecting"
  /\ transport' = [transport EXCEPT !.socket = "connected"]
  /\ UNCHANGED <<rtvars, built, httpvars, tool, search, config>>

NextTransport == TransportConnect \/ TransportEmit \/ TransportClose \/ SocketReportsConnect

SpecTransport == Init /\ [][NextTransport]_vars

\* ------------------------------------------------------------ the core as a whole
\* a run of the core is a run of realtime operations or a request() / rpc() call
NextCore ==
  \/ call.status = "idle" /\ Next
  \/ nOps = 0 /\ NextHttp

SpecCore == Init /\ [][NextCore]_vars

\* ------------------------------------------------------------ reading a document
\* the note block of the document: the first note under its page
NoteOf(d) == FindNoteId(d, TRUE, DocId)

\* the texts of the paragraphs listed in the note's sys:children
TextsOf(d, noteId) ==
  LET arr == ChildrenOf(d, GetBlock(d, noteId))
  IN [i \in 1..Len(arr) |->
        IF HasBlock(d, arr[i]) THEN GetBlock(d, arr[i]).text ELSE Unset]

Count(t, seq) == Cardinality({i \in 1..Len(seq) : seq[i] = t})
SameTexts(a, b) ==
  /\ Len(a) = Len(b)
  /\ \A t \in Texts \cup Contents : Count(t, a) = Count(t, b)

\* no block lists a child id that is not a key of the blocks map
NoDangling(d) ==
  \A b \in VisibleBlocks(d) :
    \A i \in 1..Len(ChildrenOf(d, b)) : HasBlock(d, ChildrenOf(d, b)[i])

Fields(b) == [b EXCEPT !.client = 0]
IsPrefix(a, b) == Len(a) <= Len(b) /\ \A i \in 1..Len(a) : a[i] = b[i]

Settled == op.status \in {"resolved", "rejected"}
PushEvent == Event("space:push-doc-update", DocId)
Emitted(e) == Cardinality({i \in 1..Len(events) : events[i] = e})
DocEvents ==
  {e \in {events[i] : i \in 1..Len(events)} :
     e.event \in {"space:load-doc", "space:push-doc-update", "space:delete-doc"}}

\* ------------------------------------------------------------ claims
\* C1: after createDoc and N appendText calls, each with its push acknowledged
\* and merged, the note has as many children as texts were given (the content, if
\* any, and the N texts), each text exactly once, whether or not the pulls worked.
C1_AppendMonotonicity ==
  (Settled /\ expect.created /\ Len(expect.texts) = appends) =>
    LET base == IF Truthy(expect.content) THEN <<expect.content>> ELSE <<>>
    IN /\ NoteOf(server) # NoKey
       /\ Len(TextsOf(server, NoteOf(server))) = Len(base) + appends
       /\ SameTexts(TextsOf(server, NoteOf(server)), base \o expect.texts)

\* C2: buildInitialPageUpdate(title, content) decodes to exactly one page block
\* with exactly one child, a note block, and the note has exactly one child, a
\* paragraph whose text is content, if and only if content is non-empty; otherwise
\* the note has no children.
C2_TreeShape ==
  built.called =>
    LET d == applyUpdate(EmptyDoc, built.update)
        pages == {b \in VisibleBlocks(d) : b.flavour = "affine:page"}
    IN /\ Cardinality(pages) = 1
       /\ \A yPage \in pages :
            LET kids == ChildrenOf(d, yPage)
            IN /\ Len(kids) = 1
               /\ HasBlock(d, kids[1])
               /\ GetBlock(d, kids[1]).flavour = "affine:note"
               /\ LET paras == ChildrenOf(d, GetBlock(d, kids[1]))
                      onePara == /\ Len(paras) = 1
                                 /\ HasBlock(d, paras[1])
                                 /\ GetBlock(d, paras[1]).flavour = "affine:paragraph"
                                 /\ GetBlock(d, paras[1]).text = built.content
                  IN /\ onePara <=> Truthy(built.content)
                     /\ ~Truthy(built.content) => paras = <<>>

C2_Witness ==
  /\ built.called /\ built.content = "a"
  /\ \E b \in VisibleBlocks(built.update) :
       b.flavour = "affine:paragraph" /\ b.text = "a"

\* C3: in the server's merged document every id listed in a block's sys:children
\* is a key of the blocks map, after any createDoc and appendText pushes, with or
\* without a pull.
C3_NoDanglingChild == NoDangling(server)

\* a push made without a pull has been merged into a created document
C3_Witness ==
  /\ op.kind = "append" /\ op.status = "resolved" /\ ~op.havePulled
  /\ HasBlock(server, PageIdOf(DocId)) /\ HasBlock(prev, PageIdOf(DocId))
  /\ server # prev
  /\ Len(ChildrenOf(server, GetBlock(server, NoteIdOf(DocId)))) >= 1

\* C4: a merged appendText push only adds: every block of the server's state
\* before the push is still there with all its fields and its children still
\* lead the list, also when the pull failed and the note is addressed by its
\* derived id.
C4_AppendOnlyAdds ==
  (op.kind = "append" /\ op.status = "resolved" /\ Merges(Answered(op.ack))) =>
    \A b \in VisibleBlocks(prev) :
      /\ HasBlock(server, b.key)
      /\ Fields(GetBlock(server, b.key)) = Fields(b)
      /\ IsPrefix(ChildrenOf(prev, b), ChildrenOf(server, GetBlock(server, b.key)))

\* C5: an acknowledgement of space:push-doc-update or space:delete-doc that
\* carries an error field makes the operation reject, with an error that names
\* the event, holds the server's text and carries the acknowledgement; the
\* operation never resolves.
C5_AckErrorRejects ==
  (op.acked /\ op.ack.error # NoError) =>
    /\ op.status = "rejected"
    /\ op.err.op = (IF op.kind = "delete" THEN "space:delete-doc"
                    ELSE "space:push-doc-update")
    /\ op.err.text = op.ack.error.s
    /\ op.err.hasAck /\ op.err.ack = op.ack

\* C6: when connecting fails, the space:join emit rejects or its acknowledgement
\* carries an error field, the operation rejects and emits no space:load-doc,
\* space:push-doc-update or space:delete-doc.
C6_JoinFailureAborts ==
  (op.err.at = "connect" \/ op.join \in {"reject", "ackerror"}) =>
    op.status = "rejected" /\ DocEvents = {}

\* C7: when appendText's pull rejects, times out or brings nothing usable, the
\* operation does not fail for it: it builds the paragraph under note:<docId> and
\* emits exactly one space:push-doc-update for the document.
C7_PullFailureDegrades ==
  (op.kind = "append" /\ op.pull \in {"reject", "timeout", "nothing"}) =>
    /\ ~op.havePulled /\ op.noteId = NoteIdOf(DocId)
    /\ op.err.at \notin {"space:load-doc", "locate"}
    /\ HasBlock(doc, NoteIdOf(DocId))
    /\ TextsOf(doc, NoteIdOf(DocId)) = <<StringOf(op.text)>>
    /\ IF op.pc = "push" /\ ~op.waiting THEN Emitted(PushEvent) = 0
       ELSE Emitted(PushEvent) = 1 /\ pushed = encodeStateAsUpdate(doc)

C7_Witness ==
  /\ op.kind = "append" /\ op.pull = "timeout" /\ op.status = "resolved"
  /\ Emitted(PushEvent) = 1

\* C8: when the server never acknowledges a space:push-doc-update, createDoc and
\* appendText still settle (with a timeout error): the operation is never left
\* waiting with nothing that can happen next.
C8_PushAlwaysSettles ==
  (op.kind \in {"create", "append"} /\ op.pc = "push" /\ op.waiting) => ENABLED Next

\* C9: close() is never called on a transport the caller supplied, whether the
\* operation succeeds or fails.
C9_SuppliedTransportNotClosed == closeCalls = 0

\* a second operation has settled on the supplied transport, this one rejected
C9_Witness == ~op.own /\ op.status = "rejected" /\ op.pc = "done" /\ nOps = 2

\* C10: an operation that opened its own connection has closed it by the time it
\* settles, on every path.
C10_OwnConnectionClosed == (op.own /\ Settled) => socket = "null"

\* C11: createDoc resolves with the new docId whenever the document's own push
\* was acknowledged without error, whatever the workspace-root step comes to: the
\* root load rejecting, answering with an error, or bringing an empty or
\* undecodable snapshot, or the root push rejecting or being answered with an error.
C11_RootFailureSwallowed ==
  (/\ op.kind = "create" /\ op.acked /\ op.ack.error = NoError
   /\ \/ op.rootLoad \in {"reject", "error", "empty", "garbage"}
      \/ op.rootPush \in {"reject", "ackerror"}) =>
    op.status = "resolved" /\ op.docId = DocId

\* createDoc has resolved although the root push was answered with an error
C11_Witness ==
  /\ op.kind = "create" /\ op.rootLoad = "snapshot" /\ op.rootPush = "ackerror"
  /\ op.status = "resolved" /\ op.docId = DocId /\ DocId \notin root
  /\ HasBlock(server, PageIdOf(DocId))

\* C12: on any connection space:join is emitted once, and before any
\* space:load-doc, space:push-doc-update or space:delete-doc on that connection,
\* also when one caller-supplied transport serves several operations.
C12_JoinOncePerConnection ==
  /\ joins <= 1
  /\ op.own => Emitted(Event("space:join", "ws")) <= 1
  /\ \A i \in 1..Len(events) :
       events[i] \in DocEvents => \E j \in 1..(i - 1) : events[j].event = "space:join"

\* C13: an acknowledgement without an error field (no value, {} or
\* {accepted: true}) is success: createDoc resolves with the docId,
\* deleteDocRealtime with ok = true, appendText with accepted = true unless the
\* acknowledgement says accepted = false, and then it resolves with accepted = false.
C13_NoErrorFieldIsSuccess ==
  (op.acked /\ op.ack.error = NoError) =>
    /\ op.status # "rejected"
    /\ op.kind = "delete" => op.status = "resolved" /\ op.ok
    /\ op.kind = "append" =>
         /\ op.status = "resolved"
         /\ op.accepted = (op.ack.accepted # "false")
    /\ (op.kind = "create" /\ Settled) => op.docId = DocId

\* appendText has resolved with accepted = false on { accepted: false }
C13_Witness ==
  /\ op.kind = "append" /\ op.status = "resolved" /\ op.acked
  /\ op.ack.obj /\ op.ack.error = NoError /\ op.ack.accepted = "false" /\ ~op.accepted

\* C14: appendText never rejects because the note block is missing: when the
\* state it works on has no page block, or no note under the page, it inserts a
\* stub note and still pushes the new paragraph.
C14_MissingNoteGetsStub ==
  (op.kind = "append" /\ op.pull # "none" /\ NoteOf(IF op.havePulled THEN server ELSE EmptyDoc) = NoKey) =>
    /\ op.err.at # "locate"
    /\ \E b \in VisibleBlocks(doc) : b.flavour = "affine:note"
    /\ (Settled \/ op.waiting) => Emitted(PushEvent) = 1

\* ------------------------------------------------------------ reading a request() call
HttpSettled == call.status \in {"resolved", "rejected"}
MaxOfCall == maxAttemptsOf(call.maxAttempts)
OutcomeAt(i) == exchanges[i].out
StatusesOf == [i \in 1..Len(exchanges) |-> exchanges[i].out.status]
\* a status the default policy is said to retry: 408, 429 or 5xx
SaidRetryable(status) == status \in {408, 429} \cup (500..599)
\* a response with a status outside 2xx
Non2xx(out) == out.kind = "response" /\ ~Is2xx(out.status)
\* a failure without an HTTP response: a timeout or a network-level error
TimeoutCodes == {"UND_ERR_HEADERS_TIMEOUT", "UND_ERR_BODY_TIMEOUT", "ETIMEDOUT"}
NoResponseFailure(out) == out.kind = "throw" /\ out.statusCode = NoStatus

\* C15: under the default retry policy, when attempts 1..k-1 each receive a
\* retryable status (408, 429 or 5xx) and attempt k <= maxAttempts receives a 2xx,
\* request() resolves with attempt k's response; when all maxAttempts attempts
\* receive a retryable status it rejects with a ResponseError that carries the
\* last status and retryable = true; a retryable status before the last attempt
\* does not end the call.
C15_RetryUntilSuccess ==
  (/\ call.layer = "request" /\ Len(exchanges) > 0
   /\ \A i \in 1..Len(exchanges) :
        /\ OutcomeAt(i).kind = "response"
        /\ i < Len(exchanges) => SaidRetryable(OutcomeAt(i).status)) =>
    LET k == Len(exchanges)
        last == OutcomeAt(k)
    IN /\ k <= MaxOfCall
       /\ (Is2xx(last.status) /\ Decode(call.responseType, last.body).ok) =>
            /\ call.status = "resolved"
            /\ call.res.status = last.status /\ call.res.ct = last.ct
            /\ call.res.rawBody = last.body
       /\ (SaidRetryable(last.status) /\ k = MaxOfCall) =>
            /\ call.status = "rejected" /\ call.err.name = "ResponseError"
            /\ call.err.status = last.status /\ call.err.retryable
            /\ call.err.attempt = k
       /\ (SaidRetryable(last.status) /\ k < MaxOfCall) => call.status = "running"

\* 503, 503, 200 with maxAttempts = 3: resolved with the third response
C15_Witness ==
  /\ call.layer = "request" /\ call.maxAttempts = Given(3)
  /\ StatusesOf = <<503, 503, 200>>
  /\ call.status = "resolved" /\ call.res.status = 200 /\ sleeps = 2

\* C16: a non-2xx response whose status is not 408, 429 or 5xx (400, 401, 404)
\* makes request() reject with a ResponseError with retryable = false right
\* after that attempt: no backoff sleep and no further attempt follow, whatever
\* maxAttempts is.
C16_NonRetryableStatusFailsAtOnce ==
  \A i \in 1..Len(exchanges) :
    (Non2xx(OutcomeAt(i)) /\ ~SaidRetryable(OutcomeAt(i).status)) =>
      /\ i = Len(exchanges) /\ sleeps = i - 1
      /\ call.status = "rejected" /\ call.err.name = "ResponseError"
      /\ ~call.err.retryable /\ call.err.status = OutcomeAt(i).status
      /\ call.err.attempt = i
      /\ ~ENABLED NextHttp

\* a 404 on the second of three attempts has ended the call
C16_Witness ==
  /\ call.maxAttempts = NotGiven /\ StatusesOf = <<503, 404>>
  /\ call.status = "rejected" /\ call.err.status = 404 /\ ~call.err.retryable
  /\ sleeps = 1

\* C17: a timeout or network-level failure on attempt n < maxAttempts is
\* followed by attempt n+1; on attempt n = maxAttempts request() rejects with the
\* wrapped error: a TimeoutError or a NetworkError with retryable = true, the
\* NetworkError keeping the underlying message and code.
C17_NetworkFailureRetried ==
  \A i \in 1..Len(exchanges) :
    NoResponseFailure(OutcomeAt(i)) =>
      /\ exchanges[i].attempt = i
      /\ (i < MaxOfCall /\ i = Len(exchanges)) =>
           /\ call.status = "running"
           /\ \/ /\ call.pc = "sleep" /\ call.attempt = i /\ sleeps = i - 1
                 /\ ENABLED Backoff
              \/ /\ call.pc = "send" /\ call.attempt = i + 1 /\ sleeps = i
                 /\ ENABLED Exchange
      /\ i < Len(exchanges) => exchanges[i + 1].attempt = i + 1
      /\ i = MaxOfCall =>
           /\ i = Len(exchanges) /\ call.status = "rejected"
           /\ call.err.retryable /\ call.err.attempt = i
           /\ IF OutcomeAt(i).code \in TimeoutCodes
              THEN call.err.name = "TimeoutError"
              ELSE /\ call.err.name = "NetworkError"
                   /\ call.err.code = OutcomeAt(i).code
                   /\ OutcomeAt(i).message.def =>
                        call.err.message = Msg(OutcomeAt(i).message.s)

\* a refused connection on both of two attempts: rejected with the NetworkError
C17_Witness ==
  /\ call.maxAttempts = Given(2) /\ Len(exchanges) = 2
  /\ OutcomeAt(1).code = "ECONNREFUSED" /\ OutcomeAt(2).code = "ECONNREFUSED"
  /\ call.status = "rejected" /\ call.err.name = "NetworkError"
  /\ call.err.code = "ECONNREFUSED" /\ call.err.retryable

\* C18: a header or body timeout of an attempt (UND_ERR_HEADERS_TIMEOUT,
\* UND_ERR_BODY_TIMEOUT or ETIMEDOUT) that request() surfaces is a TimeoutError
\* with retryable = true and code 'ETIMEDOUT', never a NetworkError.
C18_TimeoutIsTimeoutError ==
  (/\ HttpSettled /\ Len(exchanges) > 0
   /\ OutcomeAt(Len(exchanges)).kind = "throw"
   /\ OutcomeAt(Len(exchanges)).code \in TimeoutCodes) =>
    /\ call.status = "rejected" /\ call.err.name = "TimeoutError"
    /\ call.err.retryable /\ call.err.code = "ETIMEDOUT"

\* a body timeout on the only attempt has been surfaced
C18_Witness ==
  /\ call.maxAttempts = Given(1) /\ Len(exchanges) = 1
  /\ OutcomeAt(1).code = "UND_ERR_BODY_TIMEOUT"
  /\ call.status = "rejected" /\ call.err.name = "TimeoutError"

\* C19: with responseType 'json' a 2xx response whose non-empty body is not
\* valid JSON makes request() reject with a ResponseError with retryable = false,
\* and no further attempt is made even when attempts remain.
C19_BadJsonNotRetried ==
  \A i \in 1..Len(exchanges) :
    (/\ call.responseType \in {Unset, "json"}
     /\ OutcomeAt(i).kind = "response" /\ Is2xx(OutcomeAt(i).status)
     /\ OutcomeAt(i).body # <<>> /\ ~JsonParse(OutcomeAt(i).body).ok) =>
      /\ i = Len(exchanges) /\ sleeps = i - 1
      /\ call.status = "rejected" /\ call.err.name = "ResponseError"
      /\ ~call.err.retryable /\ call.err.status = OutcomeAt(i).status
      /\ call.err.message = Msg("Failed to parse JSON response")
      /\ ~ENABLED NextHttp

\* a 200 with an HTML body on the first of three attempts has ended the call
C19_Witness ==
  /\ call.responseType = "json" /\ call.maxAttempts = Given(3)
  /\ Len(exchanges) = 1 /\ OutcomeAt(1).status = 200 /\ OutcomeAt(1).body = <<NotJson>>
  /\ call.status = "rejected" /\ call.err.name = "ResponseError" /\ ~call.err.retryable

\* the event an operation's own document request goes out with
OwnEvent ==
  Event(IF op.kind = "delete" THEN "space:delete-doc" ELSE "space:push-doc-update", DocId)
\* an exchange of an rpc() call whose decoded envelope carries an error
ErrorEnvelope(out) ==
  /\ call.layer = "rpc" /\ out.kind = "response" /\ Is2xx(out.status)
  /\ rpcFinish(HttpResponse(out.status, out.ct, Decode("text", out.body).data,
                            out.body)).err.rpcCode # 0

NewParagraphIn(u) ==
  \E b \in u.blocks :
    /\ b.flavour = "affine:paragraph" /\ b.text = StringOf(op.text)
    /\ \E k \in u.kids : k.val = b.key /\ k.arr[1] = op.noteId /\ k.client = b.client
    /\ b \notin server.blocks \/ b \notin prev.blocks

\* C29: in appendText the events on the connection come in the order space:join,
\* space:load-doc, space:push-doc-update; the push is emitted only once the pull
\* has resolved, rejected or timed out; and when the pull delivered a snapshot the
\* pushed update holds the snapshot's state (all the server has, no other writer
\* being at work) together with the new paragraph.
C29_PullThenPush ==
  op.kind = "append" =>
    /\ IsPrefix(events, <<Event("space:join", "ws"), Event("space:load-doc", DocId),
                          PushEvent>>)
    /\ Emitted(PushEvent) = 1 =>
         /\ op.pull \in {"snapshot", "nothing", "reject", "timeout"}
         /\ pushed = encodeStateAsUpdate(doc)
         /\ NewParagraphIn(pushed)
         /\ op.havePulled =>
              /\ op.pull = "snapshot"
              /\ server.blocks \subseteq pushed.blocks
              /\ server.kids \subseteq pushed.kids
    /\ (op.havePulled /\ op.pc = "push") =>
         server.blocks \subseteq doc.blocks /\ server.kids \subseteq doc.kids

\* a created document was pulled, and the push that followed was merged with
\* the page, the note and the new paragraph in it
C29_Witness ==
  /\ op.kind = "append" /\ op.status = "resolved" /\ op.havePulled
  /\ Len(events) = 3 /\ HasBlock(prev, PageIdOf(DocId)) /\ server = pushed
  /\ prev.blocks \subseteq pushed.blocks /\ prev.blocks # pushed.blocks

\* C30: createDoc emits exactly one space:push-doc-update for the new docId; that
\* one update holds the page, the note under the page and (when content is given)
\* the paragraph under the note; and the server holds either nothing of the new
\* document or the whole of that update.
C30_SinglePushWholeTree ==
  op.kind = "create" =>
    /\ Emitted(PushEvent) <= 1
    /\ op.status = "resolved" => Emitted(PushEvent) = 1
    /\ Emitted(PushEvent) = 0 => server = EmptyDoc
    /\ Emitted(PushEvent) = 1 =>
         /\ server \in {EmptyDoc, pushed}
         /\ HasBlock(pushed, PageIdOf(DocId)) /\ HasBlock(pushed, NoteIdOf(DocId))
         /\ GetBlock(pushed, PageIdOf(DocId)).flavour = "affine:page"
         /\ GetBlock(pushed, NoteIdOf(DocId)).flavour = "affine:note"
         /\ ChildrenOf(pushed, GetBlock(pushed, PageIdOf(DocId))) = <<NoteIdOf(DocId)>>
         /\ LET paras == ChildrenOf(pushed, GetBlock(pushed, NoteIdOf(DocId)))
            IN IF Truthy(op.text)
               THEN /\ Len(paras) = 1 /\ HasBlock(pushed, paras[1])
                    /\ GetBlock(pushed, paras[1]).flavour = "affine:paragraph"
                    /\ GetBlock(pushed, paras[1]).text = op.text
               ELSE paras = <<>>

\* a createDoc with content has resolved after its one push was merged whole
C30_Witness ==
  /\ op.kind = "create" /\ op.status = "resolved" /\ Truthy(op.text)
  /\ Emitted(PushEvent) = 1 /\ server = pushed
  /\ Cardinality(pushed.blocks) = 3

\* the envelope rpc() decodes from the response request() returned: the last data
\* line that parses of an event stream, or the JSON body
DecodedEnvelope(res) ==
  IF isEventStream(res) THEN parseSsePayload(res.data.text)
  ELSE JsonParse(res.data.text).value
ToolAnswered == tool.status # "idle" /\ tool.out.kind = "return"

\* C28 as stated: whenever the decoded envelope of a tool call carries an error
\* field, the call rejects with message error.message and code error.code.
C28_ErrorFieldRejects ==
  (ToolAnswered /\ DecodedEnvelope(tool.out.res).hasError) =>
    /\ tool.status = "rejected"
    /\ tool.err.message = Msg(DecodedEnvelope(tool.out.res).message)
    /\ tool.err.rpcCode = DecodedEnvelope(tool.out.res).code

\* C28 as the code has it: whenever the decoded envelope of a tool call carries
\* an error object, the call rejects with a plain Error (no parse error, no
\* transport error) whose code is error.code and whose message is error.message,
\* or 'MCP error' when that message is empty; an error field of null is no error.
C28_ErrorObjectRejects ==
  ToolAnswered =>
    LET env == DecodedEnvelope(tool.out.res)
    IN /\ (env.hasError /\ env.errorTruthy) =>
            /\ tool.status = "rejected" /\ tool.value = NoResult
            /\ tool.err.name = "Error"
            /\ tool.err.message =
                 Msg(IF env.message # "" THEN env.message ELSE "MCP error")
            /\ tool.err.rpcCode = env.code
       /\ (env.hasError /\ ~env.errorTruthy) => tool.status = "resolved"

\* readDocument got an event stream whose last data line is an error envelope
\* after a data line with a result, and rejected with the envelope's message and code
C28_Witness ==
  /\ tool.name = "readDocument" /\ tool.status = "rejected"
  /\ tool.out.kind = "return" /\ isEventStream(tool.out.res)
  /\ tool.out.res.rawBody = <<DataLine(" ", JResult), DataLine(" ", JError)>>
  /\ tool.err.message = Msg("boom") /\ tool.err.rpcCode = 42

\* ------------------------------------------------------------ claims on the keyword search
CallsOf(fn) == {i \in 1..Len(search.calls) : search.calls[i].fn = fn}
FnAt(i) == search.calls[i].fn
SearchDone == search.status = "resolved"

\* text contains query, letter case set aside
ContainsCI(text, query) ==
  \E off \in 0..(Len(text) - Len(query)) :
    \A k \in 1..Len(query) : LowerChar(text[off + k]) = LowerChar(query[k])
CharsOf(t) == IF t.def THEN t.chars ELSE <<>>

\* the indexer's answer holds no item
GqlEmpty == search.gql.kind = "null" \/ (search.gql.kind = "list" /\ search.gql.list = <<>>)
GqlHit == search.gql.kind = "list" /\ search.gql.list # <<>>

\* item is the indexer's document d, field by field
IsGqlItem(item, d) ==
  /\ item.docId = d.docId /\ item.title = d.title /\ item.highlight = d.highlight
  /\ item.createdAt = d.createdAt /\ item.updatedAt = d.updatedAt

\* C21: if the GraphQL search throws and the tool list holds keyword_search, whose
\* call returns a non-empty list, the search resolves at once with source 'mcp' and
\* exactly that list; listRecentlyUpdatedDocs, listDocs and readDocument are never
\* called.
C21_McpHitIsFinal ==
  (/\ search.gql.kind = "throw" /\ "keyword_search" \in search.tools.names
   /\ search.keyword.kind = "list" /\ search.keyword.list # <<>>) =>
    /\ SearchDone /\ search.source = "mcp" /\ search.items = search.keyword.list
    /\ CallsOf("listRecentlyUpdatedDocs") = {} /\ CallsOf("listDocs") = {}
    /\ CallsOf("readDocument") = {}
    /\ Len(search.calls) = 3 /\ FnAt(3) = "keywordSearch"

C21_Witness ==
  /\ SearchDone /\ search.gql.kind = "throw" /\ search.source = "mcp"
  /\ search.keyword.list = <<M1, M2>> /\ search.items = <<M1, M2>>
  /\ search.first = Given(1)

C23_GraphqlHit ==
  GqlHit =>
    /\ search.source = "graphql"
    /\ Len(search.items) >= Len(search.gql.list)
    /\ \A i \in 1..Len(search.gql.list) : IsGqlItem(search.items[i], search.gql.list[i])
    /\ CallsOf("keywordSearch") = {} /\ search.tools.kind = "none"
    /\ CallsOf("listDocs") = {} /\ search.recent.kind = "none"
    /\ search.docsConn.kind = "none" /\ search.titleItems = <<>>

C23_Witness ==
  /\ SearchDone /\ search.gql.list = <<G2, G1>> /\ search.source = "graphql"
  /\ Len(search.items) = 3 /\ search.items[3].docId = "d2"

\* C24 as stated: whenever the indexed tier throws or returns an empty list, the
\* next call is toolsList and, if keyword_search is listed, keywordSearch is
\* called before any listing.
C24_ToolTierOnThrowOrEmpty ==
  ((search.gql.kind = "throw" \/ GqlEmpty) /\ Len(search.calls) >= 2) =>
    /\ FnAt(2) = "toolsList"
    /\ ("keyword_search" \in search.tools.names /\ Len(search.calls) >= 3) =>
         FnAt(3) = "keywordSearch"

\* C24 as the code has it: the tool tier is attempted only when the indexed tier
\* throws; then toolsList is the next call and, if keyword_search is listed,
\* keywordSearch is called before any listing. When the indexed tier returns an
\* empty list the tool tier is skipped: the next call is listRecentlyUpdatedDocs.
C24_ToolTierOnlyOnThrow ==
  /\ (search.gql.kind = "throw" /\ Len(search.calls) >= 2) =>
       /\ FnAt(2) = "toolsList"
       /\ Len(search.calls) >= 3 =>
            FnAt(3) = IF "keyword_search" \in search.tools.names THEN "keywordSearch"
                      ELSE "listRecentlyUpdatedDocs"
  /\ search.gql.kind \in {"null", "list"} =>
       /\ search.tools.kind = "none" /\ CallsOf("keywordSearch") = {}
       /\ (GqlEmpty /\ Len(search.calls) >= 2) => FnAt(2) = "listRecentlyUpdatedDocs"

\* the indexer threw, keyword_search was listed and called, and only then, its
\* call having failed, were the documents listed
C24_Witness ==
  /\ search.gql.kind = "throw" /\ search.keyword.kind = "throw"
  /\ Len(search.calls) >= 4 /\ FnAt(2) = "toolsList" /\ FnAt(3) = "keywordSearch"
  /\ FnAt(4) = "listRecentlyUpdatedDocs"

\* C25: if keywordSearch succeeds with an empty list the cascade stops there: no
\* listing is ever called and the search resolves with source 'mcp' and no items.
C25_EmptyMcpStops ==
  (search.keyword.kind = "list" /\ search.keyword.list = <<>>) =>
    /\ CallsOf("listRecentlyUpdatedDocs") = {} /\ CallsOf("listDocs") = {}
    /\ SearchDone => search.source = "mcp" /\ search.items = <<>>

\* C26: when the indexed tier returned a non-empty list, the result is that list,
\* in its order, followed by the matches of the content scan (documents not among
\* the indexed items whose markdown holds the query), and the source stays
\* 'graphql'; a result's source is 'graphql' only if the indexed tier returned a
\* non-empty list.
C26_ScanAppends ==
  /\ (SearchDone /\ GqlHit) =>
       LET n == Len(search.gql.list)
       IN /\ search.source = "graphql"
          /\ Len(search.items) = n + Len(search.scan.matches)
          /\ \A i \in 1..n : IsGqlItem(search.items[i], search.gql.list[i])
          /\ \A j \in 1..Len(search.scan.matches) :
               LET it == search.items[n + j]
               IN /\ it = search.scan.matches[j] /\ it.snippet.def
                  /\ \A i \in 1..n : it.docId # search.gql.list[i].docId
                  /\ \E r \in 1..Len(search.reads) :
                       /\ search.reads[r].docId = it.docId
                       /\ search.reads[r].out.kind = "list"
                       /\ ContainsCI(search.reads[r].out.list, search.query)
          /\ Len(search.scan.matches) > 0 =>
               ~maxItemsOf(search.first).given \/ n < maxItemsOf(search.first).n
  /\ (SearchDone /\ search.source = "graphql") => GqlHit

\* one indexed item, a limit of two, and the content scan added a second item
C26_Witness ==
  /\ SearchDone /\ search.first = Given(2) /\ search.gql.list = <<G1>>
  /\ search.source = "graphql" /\ Len(search.items) = 2
  /\ search.items[2].docId = "d2" /\ search.items[2].snippet.def

\* C27: the search rejects only when listRecentlyUpdatedDocs and then listDocs of
\* the title scan both throw; an exception of the GraphQL search, of a toolsList,
\* of keywordSearch, of the content scan's listing or of a readDocument is
\* swallowed: the search goes on and ends resolved.
C27_OnlyListingFailureRejects ==
  /\ search.status = "rejected" <=>
       (search.recent.kind = "throw" /\ search.docs.kind = "throw")
  /\ search.status = "rejected" =>
       /\ Len(search.calls) >= 2
       /\ FnAt(Len(search.calls)) = "listDocs"
       /\ FnAt(Len(search.calls) - 1) = "listRecentlyUpdatedDocs"
  /\ search.pc = "done" <=> search.status \in {"resolved", "rejected"}
  /\ search.status = "running" => ENABLED NextSearch

\* the indexer, keywordSearch and a readDocument have thrown, and the search
\* resolved
C27_Witness ==
  /\ SearchDone /\ search.gql.kind = "throw" /\ search.keyword.kind = "throw"
  /\ \E r \in 1..Len(search.reads) : search.reads[r].out.kind = "throw"
  /\ Len(search.items) >= 1

\* ------------------------------------------------------------ claims on the retry loop
\* the attempts the caller asked for: max(1, maxAttempts), 3 when not given
Budget ==
  IF ~call.maxAttempts.given THEN 3
  ELSE IF call.maxAttempts.n >= 1 THEN call.maxAttempts.n ELSE 1

\* the exchange ended in a failure the loop retries: a retryable status, a
\* timeout or a network-level error
RetryableFailure(out) ==
  IF out.kind = "response" THEN ~Is2xx(out.status) /\ SaidRetryable(out.status)
  ELSE out.code \in TimeoutCodes \/ out.statusCode = NoStatus
       \/ SaidRetryable(out.statusCode)

\* C31: request() performs at most max(1, maxAttempts) exchanges (at most 3 when
\* maxAttempts is not given), numbered 1, 2, ... without a gap, and no exchange
\* after the one whose result it returns or throws.
C31_AttemptsBounded ==
  /\ Len(exchanges) <= Budget
  /\ \A i \in 1..Len(exchanges) : exchanges[i].attempt = i
  /\ HttpSettled => ~ENABLED Exchange /\ Len(exchanges) >= 1
  /\ \A i \in 1..(Len(exchanges) - 1) : RetryableFailure(OutcomeAt(i))

\* a budget of two attempts was used up by two timeouts
C31_Witness ==
  /\ call.layer = "request" /\ call.maxAttempts = Given(2) /\ Len(exchanges) = 2
  /\ call.status = "rejected" /\ call.err.name = "TimeoutError" /\ call.err.attempt = 2

\* C32: request() sleeps only between two attempts: a settled call has slept once
\* less than it has made attempts, a sleep is always followed by another
\* attempt, and no sleep follows a 2xx response, a non-retryable failure or the
\* final attempt.
C32_SleepOnlyBetweenAttempts ==
  /\ HttpSettled => sleeps = Len(exchanges) - 1 /\ ~ENABLED Backoff
  /\ (Calling /\ call.pc = "send") => sleeps = Len(exchanges)
  /\ (Calling /\ call.pc = "sleep") =>
       /\ sleeps = Len(exchanges) - 1
       /\ Len(exchanges) < Budget
       /\ RetryableFailure(OutcomeAt(Len(exchanges)))
  /\ sleeps >= 1 => lastSleep >= 0

\* three attempts, two sleeps, and none after the third attempt failed
C32_Witness ==
  /\ call.layer = "request" /\ call.maxAttempts = NotGiven /\ Len(exchanges) = 3
  /\ call.status = "rejected" /\ sleeps = 2 /\ StatusesOf = <<500, 429, 503>>

\* C33: the HttpError 'Request failed' thrown after the loop is never reached: a
\* settled request() has returned a 2xx response or has thrown a TimeoutError, a
\* NetworkError or a ResponseError from inside the loop, in the attempt of its
\* last exchange.
C33_RequestFailedUnreachable ==
  /\ call.err.name # "HttpError" /\ call.err.message # Msg("Request failed")
  /\ (call.layer = "request" /\ call.status = "resolved") => Is2xx(call.res.status)
  /\ (call.layer = "request" /\ call.status = "rejected") =>
       /\ call.err.name \in {"TimeoutError", "NetworkError", "ResponseError"}
       /\ call.err.attempt = Len(exchanges)
  /\ (Calling /\ call.pc = "sleep") => call.attempt + 1 <= MaxOfCall

\* maxAttempts = 0 counts as one attempt: a network failure in it is thrown as a
\* NetworkError from inside the loop
C33_Witness ==
  /\ call.layer = "request" /\ call.maxAttempts = Given(0) /\ Len(exchanges) = 1
  /\ call.status = "rejected" /\ call.err.name = "NetworkError" /\ sleeps = 0

\* ------------------------------------------------------------ claims on the SSE payload
\* the JSON texts a line carries after 'data:' (none for a line that does not
\* start with data:, or whose payload is empty or malformed)
ParsedData(line) ==
  {t \in JsonTexts : JsonParseLine(t).ok /\ \E pad \in DataPads : line = DataLine(pad, t)}
GoodLines(lines) == {i \in 1..Len(lines) : ParsedData(lines[i]) # {}}
LastParsed(lines) ==
  IF GoodLines(lines) = {} THEN NoValue
  ELSE LET i == CHOOSE k \in GoodLines(lines) : \A j \in GoodLines(lines) : j <= k
       IN JsonParseLine(CHOOSE t \in ParsedData(lines[i]) : TRUE).value

\* C34: the payload of an event stream is the JSON value of the last line
\* starting with 'data:' whose payload parses as JSON (undefined when there is
\* none); empty or malformed data lines and other lines change nothing, and the
\* tool call settles as the unwrapping of that value does.
C34_LastParsedDataLine ==
  (ToolAnswered /\ isEventStream(tool.out.res)) =>
    LET lines == tool.out.res.data.text
        r == unwrapRpc(LastParsed(lines))
    IN /\ parseSsePayload(lines) = LastParsed(lines)
       /\ tool.status = (IF r.kind = "throw" THEN "rejected" ELSE "resolved")
       /\ tool.err = r.err
       /\ r.kind = "return" => tool.value = ToolReturn(tool.name, r.value)

\* callTool got a result on a data line followed by a malformed data line, and
\* resolved with the result
C34_Witness ==
  /\ ToolAnswered /\ isEventStream(tool.out.res) /\ tool.name = "callTool"
  /\ tool.out.res.data.text = <<DataLine(" ", JResult), DataLine(" ", NotJson)>>
  /\ tool.status = "resolved" /\ tool.value = ResultValue("string", "ok", <<>>, <<>>)

\* ------------------------------------------------------------ claims on the content scan
\* the content scan has the listing at hand
ScanBegun == search.scan.i >= 1
\* the items found before the content scan, and their ids
ItemsBefore == SubSeq(search.items, 1, search.scan.before)
IdsBefore == {ItemsBefore[i].docId : i \in 1..Len(ItemsBefore)}
Limited == search.first.given /\ search.first.n > 0

\* C35: with a limit first > 0 the content scan finds at most first minus the
\* number of items found before it, reads no further document once it has found
\* that many, and the result it leaves is no longer than first.
C35_ScanWithinLimit ==
  (Limited /\ ScanBegun) =>
    /\ Len(search.scan.matches) <= search.first.n - search.scan.before
    /\ search.pc = "read" => Len(search.scan.matches) < search.first.n - search.scan.before
    /\ Len(search.reads) >= Len(search.scan.matches)
    /\ SearchDone =>
         /\ Len(search.items) = search.scan.before + Len(search.scan.matches)
         /\ Len(search.items) <= search.first.n

\* a limit of two, one indexed item: the scan read the first listed document,
\* found the query in it and left the second one unread
C35_Witness ==
  /\ SearchDone /\ search.first = Given(2) /\ search.scan.before = 1
  /\ Len(search.scan.edges) = 2 /\ search.scan.edges[2].id \notin IdsBefore
  /\ Len(search.reads) = 1 /\ search.reads[1].docId = search.scan.edges[1].id
  /\ Len(search.scan.matches) = 1 /\ Len(search.items) = 2

\* C36: the content scan reads no document and returns no match whose id is
\* among the items found before it; the listings and the earlier results having
\* distinct ids, no docId appears twice in the returned items.
C36_ScanSkipsSeen ==
  /\ ScanBegun =>
       /\ \A r \in 1..Len(search.reads) : search.reads[r].docId \notin IdsBefore
       /\ \A j \in 1..Len(search.scan.matches) :
            search.scan.matches[j].docId \notin IdsBefore
       /\ search.pc = "read" => search.scan.edges[search.scan.i].id \notin IdsBefore
  /\ SearchDone =>
       \A i, j \in 1..Len(search.items) :
         search.items[i].docId = search.items[j].docId => i = j

\* two indexed items, one of them listed as well: the scan read the two other
\* listed documents and returned both
C36_Witness ==
  /\ SearchDone /\ search.first = NotGiven /\ search.gql.list = <<G2, G1>>
  /\ search.scanList.list = <<D2, D3, D1>>
  /\ Len(search.reads) = 2 /\ Len(search.items) = 4
  /\ search.items[3].docId = "d2" /\ search.items[4].docId = "d3"

\* ------------------------------------------------------------ claims on the callers of request()
\* the call was made by gql() or a tool call with the options of httpFromOpts
CliCall == call.layer \in {"rpc", "gql"} /\ call.httpOpts = httpFromOpts

\* C37 as stated: a request made with the options of httpFromOpts (GraphQL via
\* postJson, a tool call via rpc) is attempted at most once.
C37_CliCallsAttemptOnce ==
  CliCall => Len(exchanges) <= 1

\* the last exchange of a gql() call was a non-2xx response whose body is JSON
\* with a non-empty errors array
GqlErrorBody ==
  /\ call.layer = "gql" /\ HttpSettled /\ Len(exchanges) >= 1
  /\ LET out == OutcomeAt(Len(exchanges))
     IN /\ Non2xx(out) /\ JsonParse(out.body).ok
        /\ Len(JsonParse(out.body).value.errors) > 0

\* C38 as stated: a gql() call whose HTTP call failed with a non-2xx response
\* carrying a JSON body with a non-empty errors array rejects with an Error whose
\* message is the errors' messages joined by '; ' and which has the errors
\* attached, not with the HTTP status error.
C38_GqlErrorsSurface ==
  GqlErrorBody =>
    /\ call.status = "rejected" /\ call.err.name = "Error"
    /\ call.err.message = Msg("bad; worse")
    /\ call.err.errors = <<"bad", "worse">>

\* ------------------------------------------------------------ claims on the config file
\* the profile a call selects: the trimmed flag, else the file's profile, else default
SelectedBy(file, options) ==
  IF options.profile \in {"default", "work"} THEN options.profile
  ELSE IF options.profile = " work " THEN "work"
  ELSE IF file.profile \in ProfileNames THEN file.profile
  ELSE "default"

\* the step is a writeConfigProfile call that wrote the file
WriteStep == config'.writes = config.writes + 1 /\ config.file.kind # "invalid"

\* C39: a writeConfigProfile call changes, in the profile it selects, only those of
\* apiBaseUrl, token and cookie that its options hold: such a field takes the
\* option's value, or goes when that is undefined. The profile's other fields,
\* the other profiles and the other top-level fields stay as they were; the
\* top-level profile becomes the selected one. A file that is no JSON is left alone.
C39_WriteFrame ==
  [][
      /\ WriteStep =>
           LET options == config'.last
               old == config.file
               new == config'.file
               sel == SelectedBy(old, options)
           IN /\ new.kind = "object" /\ new.profile = sel
              /\ new.apiBaseUrl = old.apiBaseUrl /\ new.extra = old.extra
              /\ \A n \in ProfileNames \ {sel} : new.profiles[n] = old.profiles[n]
              /\ new.profiles[sel].present
              /\ new.profiles[sel].keep = old.profiles[sel].keep
              /\ \A k \in {"apiBaseUrl", "token", "cookie"} :
                   new.profiles[sel][k] =
                     IF ~options[k].has THEN old.profiles[sel][k]
                     ELSE IF options[k].v = Undef THEN Absent
                     ELSE options[k].v
      /\ (config'.writes = config.writes + 1 /\ config.file.kind = "invalid") =>
           config'.file = config.file
    ]_vars

\* the file of the test after a login into work with a token only and a logout
\* without a flag: work has lost its credentials, default and the top level are
\* as they were, and the profile named is work
C39_Witness ==
  /\ config.writes = 2 /\ config.by = "logout" /\ config.last.profile = ""
  /\ config.file.profile = "work" /\ config.file.apiBaseUrl = "https://file-base"
  /\ config.file.extra = "nested"
  /\ config.file.profiles["default"] = InitialFile.profiles["default"]
  /\ config.file.profiles["work"] = Profile(Absent, Absent, Absent, Absent)

\* ------------------------------------------------------------ claims on the transport
\* C40 as stated: a connect() call resolves only with a socket that has reported
\* 'connect', also after an earlier connect() on the instance was rejected, and
\* emit() hands an event only to a socket that has connected.
C40_ResolvedMeansConnected ==
  \A i \in 1..Len(transport.calls) :
    LET c == transport.calls[i]
    IN /\ (c.fn = "connect" /\ c.result = "resolved") => c.socketAt = "connected"
       /\ (c.fn = "emit" /\ c.result = "sent") => c.socketAt = "connected"
====
